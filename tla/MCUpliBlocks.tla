----------------------------- MODULE MCUpliBlocks -----------------------------
(* A FIFO deeper than its cache and the answer under way; a return queue with     *)
(* storage in the pool and in one VC of a port, more than it has places; and      *)
(* bursts of two ports, one of them as long as they get, out of two accounts.     *)
EXTENDS UpliBlocks

MCCapacity == [p \in Ports |-> [n \in 0..Pool |-> CASE p = 0 /\ n = 0 -> 2
                                                    [] p = 0 /\ n = Pool -> 3
                                                    [] OTHER -> 0]]

MCBurstCapacity ==
  [channel \in {"req", "data"} |-> [p \in Ports |-> [n \in 0..Pool |->
     CASE channel = "req" -> IF n = p THEN 1 ELSE 0
       [] channel = "data" /\ p = 0 -> CASE n = 0 -> 4 [] n = Pool -> 1 [] OTHER -> 0
       [] OTHER -> IF n \in {1, Pool} THEN 1 ELSE 0]]]
===============================================================================
