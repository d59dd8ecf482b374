------------------------------ MODULE UpliBlocks ------------------------------
(* Blocks of a UPLI interface that share no state: the FIFO of beats of a receive *)
(* channel with its hardware (upli_receive_fifo.v over a memory that answers at   *)
(* the next edge) beside it, the queue of the credits to return, and the sender   *)
(* of bursts.  A run follows one of them, chosen in the initial state.            *)
EXTENDS ReceiveFifoQueue, UpliCreditReturn, UpliBurst

VARIABLES part,
          hw,      \* the registers of the FIFO in hardware, and its memory
          returns, \* the return queue
          held     \* beats received and not retired, by meta

returnVars == <<returns, held>>
blockVars == <<fifo, consumed, returnVars, part, hw, burstVars>>
-------------------------------------------------------------------------------
(* The FIFO in hardware.                                                         *)

CONSTANT Zero      \* what cleared data registers hold

HwEmpty ==
  [total |-> 0, unread |-> 0, writeAddr |-> 0, readAddr |-> 0, cached |-> 0,
   pending |-> FALSE, head |-> Zero, tail |-> Zero, answer |-> Zero,
   memory |-> [a \in 0..Depth - 1 |-> Zero]]

After(address) == IF address = Depth - 1 THEN 0 ELSE address + 1

Up(count, more, less) == CASE more /\ ~less -> count + 1
                           [] less /\ ~more -> count - 1
                           [] OTHER -> count

HwStep(r, data, readReady) ==
  LET write == r.total < Depth /\ data # << >>
      consume == r.cached # 0 /\ readReady
      survivors == IF consume THEN r.cached - 1 ELSE r.cached
      arrived == IF r.pending THEN 1 ELSE 0
      issue == r.unread # 0 /\ survivors + arrived < 2
  IN  [total |-> Up(r.total, write, consume),
       unread |-> Up(r.unread, write, issue),
       writeAddr |-> IF write THEN After(r.writeAddr) ELSE r.writeAddr,
       readAddr |-> IF issue THEN After(r.readAddr) ELSE r.readAddr,
       cached |-> survivors + arrived,
       pending |-> issue,
       head |-> CASE consume /\ r.cached = 2 -> r.tail
                  [] ~(consume /\ r.cached = 2) /\ r.pending /\ survivors = 0 -> r.answer
                  [] consume /\ r.cached # 2 /\ ~r.pending -> Zero
                  [] OTHER -> r.head,
       tail |-> CASE r.pending /\ survivors = 1 -> r.answer
                  [] consume /\ r.cached = 2 /\ ~r.pending -> Zero
                  [] OTHER -> r.tail,
       answer |-> IF issue THEN r.memory[r.readAddr] ELSE r.answer,
       memory |-> IF write THEN [r.memory EXCEPT ![r.writeAddr] = Head(data)] ELSE r.memory]
-------------------------------------------------------------------------------
(* The return queue: beats are received and retired in any order, and any set of  *)
(* ports may be enabled at an edge, as the bus of a port may be taken.  Only here  *)
(* can records pile up: in UpliCreditLoop each leaves at the next edge.           *)

Connected == [orig_req |-> TRUE, comp_ack |-> TRUE, comp_req |-> TRUE, orig_ack |-> TRUE]

Receipts == INSTANCE UpliReceipts
              WITH connection <- Connected, retired <- Waiting(returns), grants <- returns.grants

ReturnInit == returns = ReturnsReset /\ held = Receipts!NoReceipts

\* A beat is received where there is storage, or a held one is retired, or both.
ReturnEdge(beats, out, enabled) ==
  /\ \A b \in beats : Receipts!Occupancy(b.port, AccountOf(b.meta))
                        < Capacity[b.port][AccountOf(b.meta)]
  /\ \A b \in out : held[b.port][b.meta] > 0 /\ ReturnReady(returns, b.port)
  /\ returns' = Return(returns, out, enabled)
  /\ held' = Receipts!Minus(Receipts!Plus(held, beats), out)

ReturnReset == returns' = ReturnsReset /\ held' = Receipts!NoReceipts

ReturnNext ==
  \/ ReturnReset
  \/ \E beats, out \in Receipts!AtMostOne(Receipts!Beats), enabled \in SUBSET Ports :
       ReturnEdge(beats, out, enabled)

\* Merged or not, a grant returns receipts of one meta that were retired before:
\* none is returned twice, forgotten, or credited to another account.
ImplementsReceipts == Receipts!Spec

\* upli_credit_return_queue.v: per port a shift register of records, all of whose
\* places move down by the length of the batch that leaves.

Blank == [vc |-> 0, pool |-> FALSE]

\* The records of a queue in the places 0 .. ReturnDepth - 1 of its register.
Saved(q) == [slot \in 0..ReturnDepth - 1 |-> IF slot < Len(q) THEN q[slot + 1] ELSE Blank]

HwBatch(count, saved, enabled) ==
  LET equal(h) == count > h /\ (IF h < ReturnDepth THEN saved[h] ELSE Blank) = saved[0]
      runs == {n \in 1..Batch : \A h \in 0..n - 1 : equal(h)}
  IN  IF enabled /\ equal(0) THEN CHOOSE n \in runs : \A m \in runs : m <= n ELSE 0

HwReturnPort(q, p, beats, enabled) ==
  LET count == Len(q)
      saved == Saved(q)
      batch == HwBatch(count, saved, enabled)
      survivors == count - batch
      accepted == {b \in beats : b.port = p /\ count < ReturnDepth}
      shifted(slot) == IF slot + batch < ReturnDepth THEN saved[slot + batch] ELSE Blank
  IN  [count |-> survivors + Cardinality(accepted),
       saved |-> [slot \in 0..ReturnDepth - 1 |->
                    IF accepted # {} /\ survivors = slot
                    THEN (CHOOSE b \in accepted : TRUE).meta ELSE shifted(slot)],
       grant |-> IF batch = 0 THEN NoGrant
                 ELSE [vc |-> saved[0].vc, pool |-> saved[0].pool, count |-> batch]]

\* The register moves as the queue does, whatever is retired and enabled.
HardwareReturns ==
  \A p \in Ports, beats \in Receipts!AtMostOne(Receipts!Beats), enabled \in SUBSET Ports :
    LET after == Return(returns, beats, enabled)
    IN  HwReturnPort(returns.queue[p], p, beats, p \in enabled)
          = [count |-> Len(after.queue[p]), saved |-> Saved(after.queue[p]),
             grant |-> after.grants[p]]
-------------------------------------------------------------------------------
BlocksInit == /\ part \in {"fifo", "returns", "bursts"}
              /\ Init /\ hw = HwEmpty /\ ReturnInit /\ BurstInit

FifoEdge ==
  /\ part = "fifo"
  /\ \/ \E data \in Optional, consume \in BOOLEAN :
          Edge(data, consume) /\ hw' = HwStep(hw, data, consume)
     \/ Reset /\ hw' = [HwEmpty EXCEPT !.memory = hw.memory, !.answer = hw.answer]
  /\ UNCHANGED <<returnVars, burstVars, part>>

ReturnsEdge == /\ part = "returns" /\ ReturnNext
               /\ UNCHANGED <<fifo, consumed, hw, burstVars, part>>

BurstsEdge == /\ part = "bursts" /\ BurstNext
              /\ UNCHANGED <<fifo, consumed, hw, returnVars, part>>

BlocksNext == FifoEdge \/ ReturnsEdge \/ BurstsEdge

BlocksSpec == BlocksInit /\ [][BlocksNext]_blockVars

\* The counts, addresses and registers of the hardware hold exactly the words of
\* the reference, in its three places, through wrap-around and reset.
HardwareHoldsQueue ==
  /\ fifo.unread = [i \in 1..hw.unread |-> hw.memory[(hw.readAddr + i - 1) % Depth]]
  /\ fifo.pending = IF hw.pending THEN <<hw.answer>> ELSE << >>
  /\ fifo.visible = SubSeq(<<hw.head, hw.tail>>, 1, hw.cached)
  /\ hw.total = Count(fifo)
  /\ hw.cached = 0 => hw.head = Zero

\* Both queues and the sender are what the hardware keeps (upli_receive_fifo.v,
\* upli_credit_return_queue.v, upli_burst_control.v, upli_burst_sender.v).
HardwareInStep == /\ part = "fifo" => HardwareHoldsQueue
                  /\ part = "returns" => HardwareReturns
                  /\ part = "bursts" => CircuitInStep
===============================================================================
