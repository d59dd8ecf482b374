----------------------------- MODULE TxPacker -----------------------------
(***************************************************************************)
(* What the transmitter offers next: two prepared queues, requests (lane   *)
(* 0) and responses (lane 1), each with headers and the data halves that   *)
(* belong to them, and the credit words of the local publisher.  Channels  *)
(* picks the lane, Packer picks what the Flit carries.  An offer that is   *)
(* not taken is held.                                                      *)
(*                                                                         *)
(* Reference: src/model/tl/tx_packer.py, tx_channels.py.  Hardware:        *)
(* tl_tx_packer and tl_tx_channels of src/rtl/tl.                          *)
(***************************************************************************)
EXTENDS FlitSequence

\* No lane is held (an offer was taken, or none was made).
NoLane == 2

NewPacker == [preferFc |-> TRUE, held |-> "none"]
NewChannels == [preferred |-> 0, held |-> NoLane, owner |-> 0, packer |-> NewPacker]

(* The inputs of one edge: `in` has pending (halves owed), auth, done,     *)
(* shared, available, capacity, requests and responses (what the budget    *)
(* allows), fc ("none", "word" or "complete"), and for each lane a source  *)
(* with valid, fields, tags and data (halves at hand, at most 2).          *)

---------------------------------------------------------------------------
(* Packer.step for one selected header and one data lane. *)

HeaderFormat(in, s) == s.fields # <<>> /\ (in.auth => Len(s.fields) <= 4)
HeaderCredit(in, s) ==
    HeaderFormat(in, s) /\ Admits(s.fields, in.available, in.shared, in.done)
HeaderBudget(in, s) ==
    RequestsIn(s.fields) <= in.requests /\ ResponsesIn(s.fields) <= in.responses
NeedsData(s) == Tokens(s.fields) # <<>>

HeaderPayload(in, s, data) ==
    IF in.pending = 1 THEN data >= 1
    ELSE IF in.auth THEN s.tags
    ELSE NeedsData(s) => data >= 1

HeaderReady(in, s, data) ==
    /\ s.valid /\ HeaderCredit(in, s) /\ HeaderBudget(in, s)
    /\ HeaderPayload(in, s, data)
    /\ in.pending <= 1
    /\ ~(in.auth /\ in.pending = 1)
    /\ ~(in.pending = 1 /\ in.fc = "complete")

FcReady(in, data) ==
    /\ in.fc # "none"
    /\ \/ in.pending = 0
       \/ in.pending = 1 /\ data >= 1 /\ in.fc = "word"

\* Slip: credit words always go first.
PackerChoiceFcFirst(p, in, s, data) ==
    CASE p.held # "none" -> p.held
      [] p.held = "none" /\ in.pending > 1 -> IF data >= 2 THEN "data" ELSE "none"
      [] p.held = "none" /\ in.pending <= 1 /\ FcReady(in, data) -> "fc"
      [] p.held = "none" /\ in.pending <= 1 /\ ~FcReady(in, data)
            /\ HeaderReady(in, s, data) -> "header"
      [] p.held = "none" /\ ~FcReady(in, data) /\ ~HeaderReady(in, s, data)
            /\ in.pending = 1 /\ data >= 1 -> "tail"
      [] OTHER -> "none"

PackerChoice(p, in, s, data) ==
    LET hr == HeaderReady(in, s, data)
        fc == FcReady(in, data) /\ (~hr \/ p.preferFc)
        fresh == CASE in.pending > 1 /\ data >= 2 -> "data"
                   [] in.pending <= 1 /\ fc -> "fc"
                   [] in.pending <= 1 /\ ~fc /\ hr -> "header"
                   [] in.pending = 1 /\ ~fc /\ ~hr /\ data >= 1 -> "tail"
                   [] in.pending = 0 /\ ~fc /\ ~hr /\ s.valid
                         /\ HeaderCredit(in, s) /\ ~HeaderBudget(in, s) -> "nop"
                   [] OTHER -> "none"
    IN  IF p.held # "none" THEN p.held ELSE fresh

\* How many data halves the Flit takes along.
DataTaken(choice, in, s) ==
    CASE choice = "data" -> 2
      [] choice = "tail" -> 1
      [] choice = "fc" /\ in.pending = 1 -> 1
      [] choice = "header" /\ (in.pending = 1 \/ (~in.auth /\ NeedsData(s))) -> 1
      [] OTHER -> 0

PackerStep(p, choice, taken) ==
    [preferFc |-> CASE taken /\ choice = "fc" -> FALSE
                    [] taken /\ choice = "header" -> TRUE
                    [] OTHER -> p.preferFc,
     held |-> IF taken THEN "none" ELSE choice]

---------------------------------------------------------------------------
(* Channels.step. *)

RightKinds(lane, fields) ==
    \A i \in DOMAIN fields : (fields[i].kind \in RequestKinds) = (lane = 0)

Candidate(in, lane) ==
    LET s == in.sources[lane]
    IN  s.valid /\ HeaderFormat(in, s) /\ RightKinds(lane, s.fields)

LaneBudget(in, lane) ==
    Len(in.sources[lane].fields) <= IF lane = 0 THEN in.requests ELSE in.responses

\* Data at hand for the halves still owed, which belong to the owner.
LanePayload(ch, in, lane) ==
    IF in.pending # 0 THEN in.sources[ch.owner].data >= 1
    ELSE IF in.auth THEN in.sources[lane].tags
    ELSE NeedsData(in.sources[lane]) => in.sources[lane].data >= 1

LaneReady(ch, in, lane) ==
    /\ Candidate(in, lane)
    /\ HeaderCredit(in, in.sources[lane])
    /\ LaneBudget(in, lane)
    /\ LanePayload(ch, in, lane)
    /\ in.pending <= 1 /\ ~(in.auth /\ in.pending = 1)
    /\ ~(in.pending = 1 /\ in.fc = "complete")

LaneOverBudget(in, lane) ==
    /\ Candidate(in, lane)
    /\ HeaderCredit(in, in.sources[lane])
    /\ ~LaneBudget(in, lane)

\* The first lane of the best level that has one, the preferred lane first.
Selected(ch, in) ==
    LET first(P(_)) == IF P(ch.preferred) THEN ch.preferred ELSE 1 - ch.preferred
        some(P(_)) == P(0) \/ P(1)
        ready(lane) == LaneReady(ch, in, lane)
        over(lane) == LaneOverBudget(in, lane)
        valid(lane) == Candidate(in, lane)
    IN  CASE ch.held # NoLane -> ch.held
          [] ch.held = NoLane /\ some(ready) -> first(ready)
          [] ch.held = NoLane /\ ~some(ready) /\ some(over) -> first(over)
          [] ch.held = NoLane /\ ~some(ready) /\ ~some(over) /\ some(valid) ->
                 first(valid)
          [] OTHER -> ch.preferred

\* Slip: data is always taken from the lane selected now.
DataLaneSelected(ch, in, selected) == selected

DataLane(ch, in, selected) == IF in.pending # 0 THEN ch.owner ELSE selected

\* What is offered: the choice, the lane it was made for, the lane its data
\* comes from and how much of it.
Offer(ch, in) ==
    LET Made(lane, from, s, choice) ==
            [choice |-> choice, lane |-> lane, from |-> from,
             data |-> DataTaken(choice, in, s)]
        OfLane(lane, from, s) ==
            Made(lane, from, s, PackerChoice(ch.packer, in, s, in.sources[from].data))
        Select(lane) ==
            OfLane(lane, DataLane(ch, in, lane),
                   [in.sources[lane] EXCEPT !.valid = Candidate(in, lane)])
    IN  Select(Selected(ch, in))

ChannelsStep(ch, offer, taken) ==
    LET header == taken /\ offer.choice = "header"
    IN  [preferred |-> IF header THEN 1 - offer.lane ELSE ch.preferred,
         owner |-> IF header THEN offer.lane ELSE ch.owner,
         held |-> IF offer.choice # "none" /\ ~taken THEN offer.lane ELSE NoLane,
         packer |-> PackerStep(ch.packer, offer.choice, taken)]

---------------------------------------------------------------------------
(* tl_tx_channels and tl_tx_packer.  The held lane is a class bit and a    *)
(* valid bit; the class bit keeps its value when nothing is held.          *)

HwPosition(in) ==
    /\ in.pending <= 1 /\ ~(in.auth /\ in.pending = 1)
    /\ ~(in.pending = 1 /\ in.fc = "complete")

\* tl_tx_packer for the header of one lane; data counts the halves at hand.
HwSelection(p, in, s, data) ==
    LET creditReady == HeaderFormat(in, s)
                       /\ Admits(s.fields, in.available, in.shared, in.done)
        budgetReady == RequestsIn(s.fields) <= in.requests
                       /\ ResponsesIn(s.fields) <= in.responses
        hasData == \E i \in DOMAIN s.fields : s.fields[i].halves # 0 \/ s.fields[i].be
        payloadReady == IF in.pending = 1 THEN data >= 1
                        ELSE IF in.auth THEN s.tags ELSE hasData => data >= 1
        headerReady == /\ s.valid /\ creditReady /\ budgetReady /\ payloadReady
                       /\ HwPosition(in)
        fcReady == in.fc # "none" /\ (in.pending = 0
                       \/ (in.pending = 1 /\ data >= 1 /\ in.fc # "complete"))
    IN  IF p.held # "none" THEN p.held
        ELSE IF in.pending > 1 THEN (IF data >= 2 THEN "data" ELSE "none")
        ELSE IF fcReady /\ (~headerReady \/ p.preferFc) THEN "fc"
        ELSE IF headerReady THEN "header"
        ELSE IF in.pending = 1 /\ data >= 1 THEN "tail"
        ELSE IF in.pending = 0 /\ s.valid /\ creditReady /\ ~budgetReady THEN "nop"
        ELSE "none"

HwOffer(ch, in) ==
    LET candidate == {l \in {0, 1} : Candidate(in, l)}
        creditOk == {l \in candidate : Admits(in.sources[l].fields, in.available,
                                              in.shared, in.done)}
        budgetOk == {l \in {0, 1} : HeaderBudget(in, in.sources[l])}
        payloadOk == {l \in {0, 1} : LanePayload(ch, in, l)}
        ready == {l \in creditOk \cap budgetOk \cap payloadOk : HwPosition(in)}
        over == creditOk \ budgetOk
        pick(set) == IF ch.preferred \in set THEN ch.preferred ELSE 1 - ch.preferred
        Made(lane, from, s, selection) ==
            [choice |-> selection, lane |-> lane, from |-> from,
             data |-> CASE selection = "data" -> 2
                        [] selection = "tail" -> 1
                        [] selection = "fc" /\ in.pending = 1 -> 1
                        [] selection = "header" /\ (in.pending = 1
                              \/ (~in.auth /\ NeedsData(s))) -> 1
                        [] OTHER -> 0]
        OfLane(lane, from, s) ==
            Made(lane, from, s, HwSelection(ch.packer, in, s, in.sources[from].data))
        Select(lane) ==
            OfLane(lane, IF in.pending # 0 THEN ch.owner ELSE lane,
                   [in.sources[lane] EXCEPT !.valid = lane \in candidate])
    IN  Select(IF ch.held # NoLane THEN ch.held
               ELSE IF ready # {} THEN pick(ready)
               ELSE IF over # {} THEN pick(over)
               ELSE IF candidate # {} THEN pick(candidate) ELSE ch.preferred)

HwChannelsStep(ch, offer, taken) ==
    LET valid == offer.choice # "none"
        header == valid /\ taken /\ offer.choice = "header"
        fc == valid /\ taken /\ offer.choice = "fc"
    IN  [preferred |-> IF header THEN 1 - offer.lane ELSE ch.preferred,
         owner |-> IF header THEN offer.lane ELSE ch.owner,
         held |-> IF valid /\ ~taken THEN offer.lane ELSE NoLane,
         packer |-> [held |-> IF taken \/ ~valid THEN "none" ELSE offer.choice,
                     preferFc |-> IF fc THEN FALSE
                                  ELSE header \/ ch.packer.preferFc]]
===========================================================================
