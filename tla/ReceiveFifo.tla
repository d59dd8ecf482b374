------------------------------ MODULE ReceiveFifo ------------------------------
(* The FIFO in front of a consumer (model/ualink/receive_fifo.py).  Words wait   *)
(* in a memory; a read takes one edge to answer, and the answer goes to a cache  *)
(* of two words whose head the consumer sees.  A read is only started when its   *)
(* answer is sure to find a place.                                               *)
EXTENDS Integers, Sequences

Empty == [unread |-> << >>, pending |-> << >>, visible |-> << >>]

Count(f) == Len(f.unread) + Len(f.pending) + Len(f.visible)

\* Slip: only the words in the memory are counted.
ReadyByMemory(f, depth) == Len(f.unread) < depth

Ready(f, depth) == Count(f) < depth
Valid(f) == f.visible # << >>

\* Slip: one read too many.
RoomForThree(f, pop) == Len(f.visible) + Len(f.pending) - (IF pop THEN 1 ELSE 0) <= 2

\* Whether the answer to a read of this edge finds a place.
Room(f, pop) == Len(f.visible) + Len(f.pending) - (IF pop THEN 1 ELSE 0) < 2

Pops(f, consume) == consume /\ Valid(f)
Reads(f, consume) == f.unread # << >> /\ Room(f, Pops(f, consume))

\* Slip: an empty memory and pipeline are bypassed, the cache is not looked at.
StepBypassing(f, depth, data, consume) ==
  LET bypass == f.unread = << >> /\ Ready(f, depth) /\ Room(f, Pops(f, consume))
  IN  [visible |-> (IF Pops(f, consume) THEN Tail(f.visible) ELSE f.visible)
                     \o (IF bypass THEN data ELSE << >>) \o f.pending,
       pending |-> IF Reads(f, consume) THEN <<Head(f.unread)>> ELSE << >>,
       unread |-> (IF Reads(f, consume) THEN Tail(f.unread) ELSE f.unread)
                    \o (IF Ready(f, depth) /\ ~bypass THEN data ELSE << >>)]

\* One clock edge.  data holds the word offered, if any.
Step(f, depth, data, consume) ==
  [visible |-> (IF Pops(f, consume) THEN Tail(f.visible) ELSE f.visible) \o f.pending,
   pending |-> IF Reads(f, consume) THEN <<Head(f.unread)>> ELSE << >>,
   unread |-> (IF Reads(f, consume) THEN Tail(f.unread) ELSE f.unread)
                \o (IF Ready(f, depth) THEN data ELSE << >>)]
===============================================================================
