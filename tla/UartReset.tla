------------------------------- MODULE UartReset -------------------------------
(* The requester and responder of the UART stream reset at one end              *)
(* (model/ualink/uart_reset.py).  A local reset sends NoOps words without       *)
(* meaning, then a Request, and waits for a response of status SUCCESS; a        *)
(* request of the peer is owed a response.  The stream is disabled meanwhile.   *)
(* The clock is reduced to left, the time until the deadline of a wait.         *)
EXTENDS Integers, Sequences

CONSTANTS NoOps,    \* the 40 words that complete whatever message was cut off
          Timeout   \* the 10 ms a response may take, in steps of the clock

ASSUME ResetAssumption == NoOps \in Nat \ {0} /\ Timeout \in Nat \ {0}

Phases == {"normal", "noops", "request", "wait"}

SUCCESS == 0

\* After reset() and release_reset(): held is a global reset.
SequencerReset == [held |-> TRUE, phase |-> "normal", noops |-> 0, all_streams |-> FALSE,
                   responses |-> << >>, left |-> 0, retries |-> 0]
ReleaseHold(s) == [s EXCEPT !.held = FALSE]

StreamDisabled(s) == s.held \/ s.phase # "normal" \/ s.responses # << >>

BlockMessages(s) == s.held \/ s.phase \in {"noops", "request"}

StartRunout(s) == [s EXCEPT !.phase = "noops", !.noops = NoOps, !.left = 0]

CanRequest(s) == ~s.held /\ s.phase = "normal"
Request(s, all) == StartRunout([s EXCEPT !.all_streams = all])

\* Slip: a request that meets a local reset is taken as its answer.
ReceiveRequestWhenNormal(s, stream, all) ==
  IF s.held \/ (stream # 0 /\ ~all) \/ s.phase # "normal" THEN s
  ELSE [s EXCEPT !.responses = Append(@, all)]

ReceiveRequest(s, stream, all) ==
  IF s.held \/ (stream # 0 /\ ~all) THEN s ELSE [s EXCEPT !.responses = Append(@, all)]

ReceiveResponse(s, status, stream, all) ==
  IF s.held \/ s.phase # "wait" \/ status # SUCCESS \/ (stream # 0 /\ ~all) THEN s
  ELSE [s EXCEPT !.phase = "normal", !.left = 0]

\* What the sequencer offers to the wire, and its state once that has been sent.
\* A run-out goes before the responses that are owed.
Offer(s) ==
  CASE s.held -> "none"
    [] ~s.held /\ s.phase = "noops" -> "noop"
    [] ~s.held /\ s.phase = "request" -> "request"
    [] ~s.held /\ s.phase \in {"normal", "wait"} ->
         IF s.responses = << >> THEN "none" ELSE "response"

Service(s) ==
  CASE Offer(s) = "noop" ->
         [s EXCEPT !.noops = @ - 1, !.phase = IF s.noops = 1 THEN "request" ELSE @]
    [] Offer(s) = "request" -> [s EXCEPT !.phase = "wait", !.left = Timeout]
    [] Offer(s) = "response" -> [s EXCEPT !.responses = Tail(@)]

\* At the deadline of a wait the whole sequence is repeated.
Advance(s, elapsed) ==
  IF s.phase # "wait" THEN s
  ELSE IF elapsed < s.left THEN [s EXCEPT !.left = @ - elapsed]
  ELSE StartRunout([s EXCEPT !.retries = @ + 1])
===============================================================================
