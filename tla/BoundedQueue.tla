----------------------------- MODULE BoundedQueue -----------------------------
(* What a synchronous FIFO promises: at one clock edge a word may enter, if     *)
(* there was room before the edge, and the oldest word may leave.               *)
EXTENDS Integers, Sequences

CONSTANTS Words, Depth

VARIABLES queue,
          left     \* the word that left at the last edge, as a sequence

Init == queue = << >> /\ left = << >>

\* in and the word that leaves are sequences of at most one word.
Edge(in, leaves) ==
  /\ in # << >> => Len(queue) < Depth
  /\ leaves => queue # << >>
  /\ left' = IF leaves THEN <<Head(queue)>> ELSE << >>
  /\ queue' = (IF leaves THEN Tail(queue) ELSE queue) \o in

Flush == queue' = << >> /\ left' = << >>

Optional == {<< >>} \cup {<<w>> : w \in Words}

Next == Flush \/ \E in \in Optional, leaves \in BOOLEAN : Edge(in, leaves)

Spec == Init /\ [][Next]_<<queue, left>>
===============================================================================
