--------------------------- MODULE ReceiveFifoQueue ---------------------------
(* One ReceiveFifo between a producer that offers and a consumer that takes at   *)
(* any edge, and the queue it is for them.                                       *)
EXTENDS ReceiveFifo

CONSTANTS Words, Depth

ASSUME FifoAssumption == Depth \in Nat \ {0}

VARIABLES fifo,
          consumed   \* what the last edge gave to the consumer

vars == <<fifo, consumed>>

Optional == {<< >>} \cup {<<w>> : w \in Words}

Init == fifo = Empty /\ consumed = << >>

Edge(data, consume) ==
  /\ fifo' = Step(fifo, Depth, data, consume)
  /\ consumed' = IF Pops(fifo, consume) THEN <<Head(fifo.visible)>> ELSE << >>

Reset == fifo' = Empty /\ consumed' = << >>

Next == Reset \/ \E data \in Optional, consume \in BOOLEAN : Edge(data, consume)

Spec == Init /\ [][Next]_vars

\* Memory, answer under way and cache together never hold more than Depth words.
TypeOK ==
  /\ fifo \in [unread : Seq(Words), pending : Optional, visible : Seq(Words)]
  /\ consumed \in Optional
  /\ Count(fifo) <= Depth

\* An answer always finds one of the two places of the cache, whatever the
\* consumer does in the meantime.
CacheSuffices == Len(fifo.visible) + Len(fifo.pending) <= 2

Queue == INSTANCE BoundedQueue
           WITH queue <- fifo.visible \o fifo.pending \o fifo.unread, left <- consumed

\* The three places together are a queue of Depth words: nothing is bypassed,
\* dropped or repeated, and a full queue takes no word at the edge that frees a
\* place.
ImplementsQueue == Queue!Spec

===============================================================================
