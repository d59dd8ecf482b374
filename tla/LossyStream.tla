------------------------------ MODULE LossyStream ------------------------------
(* What a UART stream with resets promises: words are read in the order they    *)
(* were written, none twice, and none is lost unless an end is disabled.        *)
(* queue[e] holds what e has written and the other end has not read, out[e] the *)
(* last word of e that was read.                                                *)
EXTENDS Integers, Sequences, SequencesExt

CONSTANTS Writers, Words, NoWord

VARIABLES queue, out,
          disabled   \* some end is in a stream reset

vars == <<queue, out, disabled>>

Init == /\ queue = [e \in Writers |-> << >>]
        /\ out = [e \in Writers |-> NoWord]
        /\ disabled = FALSE

Put(e, word) == /\ queue' = [queue EXCEPT ![e] = Append(@, word)]
                /\ UNCHANGED <<out, disabled>>

Get(e) == /\ queue[e] # << >>
          /\ out' = [out EXCEPT ![e] = Head(queue[e])]
          /\ queue' = [queue EXCEPT ![e] = Tail(@)]
          /\ UNCHANGED disabled

\* What is left of a sequence when only the positions kept remain.
Kept(s, kept) == LET order == SetToSortSeq(kept, <)
                 IN  [i \in DOMAIN order |-> s[order[i]]]
Remainders(s) == {Kept(s, kept) : kept \in SUBSET DOMAIN s}

\* A reset begins, loses words, or ends.
Reset == /\ disabled \/ disabled'
         /\ disabled' \in BOOLEAN
         /\ \A e \in Writers : queue'[e] \in Remainders(queue[e])
         /\ DOMAIN queue' = Writers
         /\ UNCHANGED out

Next == Reset \/ \E e \in Writers : Get(e) \/ \E word \in Words : Put(e, word)

Spec == Init /\ [][Next]_vars
===============================================================================
