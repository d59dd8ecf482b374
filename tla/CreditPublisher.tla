-------------------------- MODULE CreditPublisher --------------------------
(***************************************************************************)
(* The other end of a ledger: the publisher of the receiving side turns    *)
(* its initial capacities, and later every credit released by a retired    *)
(* receive word, into credit words, at most one lane of each group in one  *)
(* word.  A built word is held until the link takes it; what it grants     *)
(* stays counted as pending until then.  When all initial credit is out it *)
(* sends one completion message.                                           *)
(*                                                                         *)
(* Reference: src/model/tl/credit_publish.py (Publisher.output and .step). *)
(* Hardware: src/rtl/tl/tl_credit_publish.v.                               *)
(***************************************************************************)
EXTENDS CreditLedger

CONSTANTS CommandField, DataField   \* largest quantity of one field (7 and 31)

Groups == 0 .. 3
SlotOf(g, lane) == g * Lanes + lane
FieldMax(g) == IF g < 2 THEN CommandField ELSE DataField

\* The empty field of a word.
NoGrant == [lane |-> 0, amount |-> 0]
EmptyWord == [g \in Groups |-> NoGrant]

NewPublisher ==
    [pending |-> Nothing, pointer |-> [g \in Groups |-> 0],
     active |-> FALSE, done |-> FALSE, shared |-> FALSE,
     valid |-> FALSE, complete |-> FALSE, word |-> EmptyWord]

\* decode(word): the credits a word grants, per slot.
Grants(word) ==
    [s \in Slots |-> LET f == word[s \div Lanes]
                     IN  IF s % Lanes = f.lane THEN f.amount ELSE 0]

Smaller(a, b) == IF a < b THEN a ELSE b

\* The field of group g: the first lane with pending credit, from the pointer.
FieldFor(p, g) ==
    LET lanes == {k \in 0 .. Lanes - 1 :
                     p.pending[SlotOf(g, (p.pointer[g] + k) % Lanes)] > 0}
        lane == (p.pointer[g] + (CHOOSE k \in lanes : \A j \in lanes : k <= j)) % Lanes
    IN  IF lanes = {} THEN NoGrant
        ELSE [lane |-> lane,
              amount |-> Smaller(p.pending[SlotOf(g, lane)], FieldMax(g))]

ConfigurationOk(capacities, shared) ==
    \/ shared
    \/ /\ \E s \in RequestData : capacities[s] > 0
       /\ \E s \in ResponseData : capacities[s] > 0

StartTaken(p, in) ==
    in.start /\ ~p.active /\ ConfigurationOk(in.capacities, in.shared)

ReleaseReady(p, release) ==
    p.done /\ \A s \in Slots : p.pending[s] + release[s] < 2 ^ (CreditBits + 1)

ReleaseTaken(p, in) == in.releaseValid /\ ReleaseReady(p, in.release)

WordTaken(p, in) == p.valid /\ in.send
SentGrants(p, in) ==
    IF WordTaken(p, in) /\ ~p.complete THEN Grants(p.word) ELSE Nothing

\* Slip: what is released in the edge in which a word leaves is lost.
PendingAfterDrop(p, in) ==
    Minus(Plus(p.pending, IF ReleaseTaken(p, in) /\ ~WordTaken(p, in) THEN in.release
                                                                     ELSE Nothing),
          SentGrants(p, in))

PendingAfter(p, in) ==
    Minus(Plus(p.pending, IF ReleaseTaken(p, in) THEN in.release ELSE Nothing),
          SentGrants(p, in))

\* Whether a free output has credit to publish.
CreditDue(p) == \E s \in Slots : p.pending[s] > 0

PublisherStep(p, in) ==
    LET started == [p EXCEPT !.active = TRUE, !.shared = in.shared,
                             !.pending = in.capacities,
                             !.pointer = [g \in Groups |-> 0]]
        credited == [p EXCEPT !.pending = PendingAfter(p, in)]
    IN  CASE StartTaken(p, in) -> started
          [] WordTaken(p, in) ->
                 [credited EXCEPT
                     !.valid = FALSE, !.complete = FALSE, !.word = EmptyWord,
                     !.done = p.done \/ p.complete,
                     !.pointer = [g \in Groups |->
                         IF p.complete \/ p.word[g].amount = 0 THEN @[g]
                         ELSE (p.word[g].lane + 1) % Lanes]]
          [] ~p.valid /\ p.active /\ CreditDue(p) /\ ~StartTaken(p, in) ->
                 [credited EXCEPT !.valid = TRUE,
                                  !.word = [g \in Groups |-> FieldFor(p, g)]]
          [] ~p.valid /\ p.active /\ ~CreditDue(p) /\ ~p.done
                      /\ ~StartTaken(p, in) ->
                 [credited EXCEPT !.valid = TRUE, !.complete = TRUE]
          [] OTHER -> credited

---------------------------------------------------------------------------
(* The hardware: per group a priority search in offset order and the field *)
(* encoding {vc flag, vc number, amount}; per slot an adder that is wide   *)
(* enough for the release and the grant, cut back to CreditBits + 1 bits.  *)

HwField(p, g) ==
    LET f == FieldFor(p, g)
    IN  IF f.amount = 0 THEN [vc |-> FALSE, number |-> 0, amount |-> 0]
        ELSE [vc |-> f.lane # 0, number |-> IF f.lane = 0 THEN 0 ELSE f.lane - 1,
              amount |-> f.amount]
HwSentLane(field) == IF field.vc THEN field.number + 1 ELSE 0
HwEncode(f) == [vc |-> f.lane # 0, number |-> IF f.lane = 0 THEN 0 ELSE f.lane - 1,
                amount |-> f.amount]

HwPublisherStep(p, in) ==
    LET ext(s) == p.pending[s] + in.release[s]
        ready == p.done /\ \A s \in Slots : ext(s) \div 2 ^ (CreditBits + 1) = 0
        start == in.start /\ ~p.active /\ ConfigurationOk(in.capacities, in.shared)
        taken == p.valid /\ in.send
        field(g) == HwEncode(p.word[g])
        sent(s) == IF /\ taken /\ ~p.complete
                      /\ HwSentLane(field(s \div Lanes)) = s % Lanes
                   THEN field(s \div Lanes).amount ELSE 0
        build == ~taken /\ ~p.valid /\ p.active
        due == CreditDue(p)
    IN  [active |-> p.active \/ start,
         shared |-> IF start THEN in.shared ELSE p.shared,
         done |-> p.done \/ (taken /\ p.complete),
         valid |-> ~taken /\ (p.valid \/ (build /\ (due \/ ~p.done))),
         complete |-> ~taken /\ (p.complete \/ (build /\ ~due /\ ~p.done)),
         word |-> CASE taken -> [g \in Groups |-> HwEncode(NoGrant)]
                    [] build /\ due -> [g \in Groups |-> HwField(p, g)]
                    [] OTHER -> [g \in Groups |-> field(g)],
         pointer |-> [g \in Groups |->
             IF taken /\ ~p.complete /\ field(g).amount # 0
             THEN (IF HwSentLane(field(g)) = Lanes - 1 THEN 0
                   ELSE HwSentLane(field(g)) + 1)
             ELSE p.pointer[g]],
         pending |-> [s \in Slots |->
             IF start THEN in.capacities[s]
             ELSE Wrap(p.pending[s] + (IF in.releaseValid /\ ready
                                       THEN in.release[s] ELSE 0) - sent(s))]]
===========================================================================
