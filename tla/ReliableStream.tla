---------------------------- MODULE ReliableStream ----------------------------
(* What link-level retry promises the layers above it: in each direction,      *)
(* payloads come out in the order they were accepted, each exactly once.       *)
(* queue[p] holds what p accepted and its peer has not delivered yet, out[p]   *)
(* the last payload of p that was delivered.                                   *)
EXTENDS Sequences

CONSTANTS Peers, Payloads, NoPayload

VARIABLES queue, out

Init == /\ queue = [p \in Peers |-> << >>]
        /\ out = [p \in Peers |-> NoPayload]

Put(p, payload) == /\ queue' = [queue EXCEPT ![p] = Append(@, payload)]
                   /\ UNCHANGED out

Get(p) == /\ queue[p] # << >>
          /\ out' = [out EXCEPT ![p] = Head(queue[p])]
          /\ queue' = [queue EXCEPT ![p] = Tail(@)]

Next == \E p \in Peers : Get(p) \/ \E payload \in Payloads : Put(p, payload)

Spec == Init /\ [][Next]_<<queue, out>>

\* Every accepted payload is delivered: the stream with a fair reader.
FairSpec == Spec /\ \A p \in Peers : WF_<<queue, out>>(Get(p))
===============================================================================
