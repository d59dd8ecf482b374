------------------------------ MODULE BasicLink -------------------------------
(* Basic DL messages: an endpoint, model/ualink/dl_basic_message.py and the    *)
(* cycle adapter model/ualink/dl_basic_control.py around it; two endpoints     *)
(* exchanging them; and the hardware of an endpoint,                           *)
(* rtl/dl/dl_basic_message_control.v.                                          *)
(*                                                                             *)
(* An endpoint owns at most one request of its own and owes at most one reply. *)
(* Both wait in a queue per kind of message, in the order in which they came.  *)
(* b is the state of an endpoint, x the inputs of one clock edge.  A word is   *)
(* [basic, kind, ack, upper]; upper is the rate, or the identity of the sender *)
(* at the time the word was made.                                              *)
(*                                                                             *)
(* The wires are reliable and ordered, as link-level retry makes them; they    *)
(* may hold a word for any time.  An end may also stand alone, before an       *)
(* environment that sends it any word and takes anything.                      *)
EXTENDS Integers, Sequences, FiniteSets

CONSTANTS Rates,      \* rates a request may carry, and ceilings of the pacing
          Identities, \* device ids and ports an endpoint may have
          Folding,    \* both ends support folding and advertise Tx Ready
          AckEdges    \* clock edges in one microsecond, the time to reply

ASSUME BasicMessageAssumption ==
  /\ Rates \subseteq Nat /\ Rates # {}
  /\ Identities \subseteq Nat /\ Identities # {}
  /\ Folding \in BOOLEAN
  /\ AckEdges \in Nat \ {0}

TxReady == 1
Rate == 4
DeviceId == 5
Port == 6
Kinds == {TxReady, Rate, DeviceId, Port}
NoOp == 0

NoLocal == [kind |-> NoOp, upper |-> 0, sent |-> FALSE]
NoRemote == [kind |-> NoOp, upper |-> 0, rate |-> 0, age |-> 0, missed |-> FALSE]

BasicReset == [local |-> NoLocal, remote |-> NoRemote, queues |-> [k \in Kinds |-> << >>]]

Word(kind, ack, upper) == [basic |-> TRUE, kind |-> kind, ack |-> ack, upper |-> upper]
NoWord == [basic |-> FALSE, kind |-> NoOp, ack |-> FALSE, upper |-> 0]
NoLimit == -1

\* The upper half of a word about this endpoint.
IdentityUpper(kind, own) == IF kind \in {DeviceId, Port} THEN own ELSE 0
-------------------------------------------------------------------------------
(* The event model.                                                            *)

\* Time moves to the next edge.  The reply is late once, when it is overdue.
Advanced(b) ==
  IF b.remote.kind = NoOp THEN b
  ELSE LET age == IF b.remote.age > AckEdges THEN b.remote.age ELSE b.remote.age + 1
       IN  [b EXCEPT !.remote.age = age, !.remote.missed = @ \/ age > AckEdges]

\* Slip: the ceiling has to lie below the rate.
EligibleBelow(b, kind, limit) ==
  Head(b.queues[kind]) = "reply" /\ kind = Rate =>
    limit # NoLimit /\ limit < b.remote.rate

\* A reply to a rate waits until the sender is paced down to that rate.
Eligible(b, kind, limit) ==
  Head(b.queues[kind]) = "reply" /\ kind = Rate =>
    limit # NoLimit /\ limit <= b.remote.rate

Offers(b, limit) == {k \in Kinds : b.queues[k] # << >> /\ Eligible(b, k, limit)}

HeadWord(b, kind) ==
  IF Head(b.queues[kind]) = "reply" THEN Word(kind, TRUE, b.remote.upper)
  ELSE Word(kind, FALSE, b.local.upper)

\* What a received word is to this endpoint.
Verdict(b, word) ==
  CASE ~word.basic \/ word.kind \notin Kinds \cup {NoOp} -> "unhandled"
    [] word.basic /\ word.kind = NoOp -> "noop"
    [] word.basic /\ word.kind = TxReady /\ ~Folding -> "unsupported"
    [] OTHER ->
         IF word.ack
         THEN IF b.local.sent /\ b.local.kind = word.kind THEN "ack" ELSE "unmatched_ack"
         ELSE IF b.remote.kind # NoOp THEN "remote_overlap" ELSE "request"

Received(b, word, own) ==
  CASE Verdict(b, word) = "ack" -> [b EXCEPT !.local = NoLocal]
    [] Verdict(b, word) = "request" ->
         [b EXCEPT !.remote = [kind |-> word.kind, upper |-> IdentityUpper(word.kind, own),
                               rate |-> IF word.kind = Rate THEN word.upper ELSE 0,
                               age |-> 0, missed |-> FALSE],
                   !.queues[word.kind] = Append(@, "reply")]
    [] OTHER -> b

Committed(b, kind) ==
  LET popped == [b EXCEPT !.queues[kind] = Tail(@)]
  IN  IF Head(b.queues[kind]) = "reply" THEN [popped EXCEPT !.remote = NoRemote]
      ELSE [popped EXCEPT !.local.sent = TRUE]

Requested(b, kind, upper) ==
  [b EXCEPT !.local = [kind |-> kind, upper |-> upper, sent |-> FALSE],
            !.queues[kind] = Append(@, "request")]
-------------------------------------------------------------------------------
(* One clock edge.  x has the identity of this end (own), a local request      *)
(* (valid, kind, rate, symbols), the pacing ceiling (limit), the word received *)
(* (arrives, word) and the set of kinds whose head the arbiter takes (take).   *)

\* Slip: a request may follow one that is still without its answer.
ReadyOnceSent(b, x) ==
  /\ b.local.kind = NoOp \/ b.local.sent
  /\ x.kind \in Kinds
  /\ x.kind = TxReady => Folding /\ x.symbols

LocalReady(b, x) ==
  /\ b.local.kind = NoOp
  /\ x.kind \in Kinds
  /\ x.kind = TxReady => Folding /\ x.symbols

\* An acknowledgement meets the state before the commit, a request the one after.
AckFirst(x) == x.word.ack /\ x.word.kind # NoOp

RequestUpper(x) == IF x.kind = Rate THEN x.rate ELSE IdentityUpper(x.kind, x.own)

\* What the end learns of its peer: a rate from requests, identities from both.
Learns(verdict, word) ==
  IF \/ verdict = "request" /\ word.kind # TxReady
     \/ verdict = "ack" /\ word.kind \in {DeviceId, Port}
  THEN [kind |-> word.kind, upper |-> word.upper] ELSE [kind |-> NoOp, upper |-> 0]

Edge(b, x) ==
  LET now == Advanced(b)
      offers == Offers(now, x.limit)
      takes == Cardinality(x.take) = 1 /\ x.take \subseteq offers
      kind == CHOOSE k \in x.take : TRUE
      reply == takes /\ Head(now.queues[kind]) = "reply"
      answered == IF x.arrives /\ AckFirst(x) THEN Received(now, x.word, x.own) ELSE now
      committed == IF takes THEN Committed(answered, kind) ELSE answered
      verdict == IF ~x.arrives THEN "none"
                 ELSE Verdict(IF AckFirst(x) THEN now ELSE committed, x.word)
      received == IF x.arrives /\ ~AckFirst(x) THEN Received(committed, x.word, x.own)
                  ELSE committed
      start == x.valid /\ LocalReady(b, x)
  IN  [next |-> IF start THEN Requested(received, x.kind, RequestUpper(x)) ELSE received,
       ready |-> LocalReady(b, x), pending |-> b.local.kind # NoOp,
       waiting |-> b.local.sent, owes |-> b.remote.kind # NoOp,
       words |-> [k \in offers |-> HeadWord(now, k)],
       start |-> start, commit |-> takes /\ ~reply, reply |-> reply,
       verdict |-> verdict, learns |-> Learns(verdict, x.word),
       missed |-> now.remote.missed /\ ~b.remote.missed,
       error |-> \/ x.take # {} /\ ~takes
                 \/ x.valid /\ x.kind \notin Kinds
                 \/ verdict \in {"unmatched_ack", "remote_overlap"}]
-------------------------------------------------------------------------------
(* Two endpoints.                                                              *)

CONSTANTS Ends,   \* the two peers
          Starts  \* kinds of requests the ends start

VARIABLES ends,  \* the endpoints
          wire,  \* words on the way to an endpoint
          alone  \* the end that stands alone, in a set of its own, if there is one

basicVars == <<ends, wire, alone>>

Peer(p) == CHOOSE q \in Ends : q # p
-------------------------------------------------------------------------------
(* The hardware.  Registers instead of the two queues: who is first of a       *)
(* request and a reply of one kind is a single bit.                            *)

\* The registers that stand for b.  Kind and upper half behind a cleared busy bit
\* keep old values; stale is one of them.
RegistersOf(b, stale) ==
  [local_busy |-> b.local.kind # NoOp, local_sent |-> b.local.sent,
   local_kind |-> IF b.local.kind # NoOp THEN b.local.kind ELSE stale,
   local_upper |-> b.local.upper,
   remote_busy |-> b.remote.kind # NoOp,
   remote_kind |-> IF b.remote.kind # NoOp THEN b.remote.kind ELSE stale,
   remote_upper |-> b.remote.upper, remote_rate |-> b.remote.rate,
   local_first |-> \E k \in Kinds : b.queues[k] = <<"request", "reply">>,
   age |-> IF b.remote.age > AckEdges THEN AckEdges ELSE b.remote.age,
   missed |-> b.remote.missed]

StaleKinds(b) == IF NoOp \in {b.local.kind, b.remote.kind} THEN {NoOp, Rate} ELSE {NoOp}

\* Registers behind a cleared busy bit mean nothing.
Meaning(r) ==
  [r EXCEPT !.local_kind = IF r.local_busy THEN @ ELSE NoOp,
            !.local_upper = IF r.local_busy THEN @ ELSE 0,
            !.remote_kind = IF r.remote_busy THEN @ ELSE NoOp,
            !.remote_upper = IF r.remote_busy THEN @ ELSE 0,
            !.remote_rate = IF r.remote_busy /\ r.remote_kind = Rate THEN @ ELSE 0,
            !.local_first = @ /\ r.local_busy /\ r.remote_busy /\ ~r.local_sent
                            /\ r.local_kind = r.remote_kind]

SameKind(r) == r.local_kind = r.remote_kind

LocalHead(r) ==
  r.local_busy /\ ~r.local_sent /\ ~(r.remote_busy /\ SameKind(r) /\ ~r.local_first)
RemoteHead(r) ==
  r.remote_busy /\ ~(r.local_busy /\ ~r.local_sent /\ SameKind(r) /\ r.local_first)

RemoteReady(r, limit) ==
  r.remote_kind = Rate => limit # NoLimit /\ limit <= r.remote_rate

LocalFirst(r, commit) == r.local_busy /\ ~r.local_sent /\ ~commit

HwBasic(r, x) ==
  LET local == {k \in Kinds : LocalHead(r) /\ r.local_kind = k}
      reply_head == {k \in Kinds : RemoteHead(r) /\ r.remote_kind = k}
      remote == {k \in reply_head : k = Rate => RemoteReady(r, x.limit)}
      capable == x.kind = TxReady => Folding /\ x.symbols
      ready == ~r.local_busy /\ x.kind \in Kinds /\ capable
      start == x.valid /\ ready
      onehot == Cardinality(x.take) = 1
      commit == onehot /\ x.take \cap local # {}
      takes_reply == onehot /\ x.take \cap reply_head # {}
      reply == takes_reply /\ RemoteReady(r, x.limit)
      kind == x.word.kind
      basic == x.arrives /\ x.word.basic
      supported == basic /\ kind \in Kinds /\ (kind = TxReady => Folding)
      done == supported /\ x.word.ack /\ r.local_busy /\ r.local_sent /\ kind = r.local_kind
      unmatched == supported /\ x.word.ack /\ ~done
      request == supported /\ ~x.word.ack /\ (~r.remote_busy \/ reply)
      overlap == supported /\ ~x.word.ack /\ r.remote_busy /\ ~reply
      late == r.remote_busy /\ ~r.missed /\ r.age = AckEdges
      \* The error is computed for a reply let through and for one held back, and
      \* the late comparison with the pacing ceiling chooses.
      stray == x.valid /\ x.kind \notin Kinds
      error_ready == \/ x.take # {} /\ (~onehot \/ ~(x.take \subseteq local \cup reply_head))
                     \/ stray \/ unmatched
                     \/ supported /\ ~x.word.ack /\ r.remote_busy /\ ~takes_reply
      error_blocked == \/ x.take # {} /\ (~onehot \/ ~(x.take \subseteq local))
                       \/ stray \/ unmatched
                       \/ supported /\ ~x.word.ack /\ r.remote_busy
  IN  [ready |-> ready, pending |-> r.local_busy, waiting |-> r.local_busy /\ r.local_sent,
       owes |-> r.remote_busy,
       \* The words of a kind are joined by OR on the output.
       words |-> [k \in local \cup remote |->
                    {Word(k, FALSE, r.local_upper) : q \in local \cap {k}}
                    \cup {Word(k, TRUE, IF k \in {DeviceId, Port} THEN r.remote_upper ELSE 0) :
                            q \in remote \cap {k}}],
       start |-> start, commit |-> commit, reply |-> reply,
       verdicts |-> {v \in {"ack", "unmatched_ack", "request", "remote_overlap", "noop",
                            "unhandled", "unsupported"} :
                       CASE v = "ack" -> done
                         [] v = "unmatched_ack" -> unmatched
                         [] v = "request" -> request
                         [] v = "remote_overlap" -> overlap
                         [] v = "noop" -> basic /\ kind = NoOp
                         [] v = "unhandled" ->
                              x.arrives /\ (~basic \/ kind \notin Kinds \cup {NoOp})
                         [] v = "unsupported" -> basic /\ kind = TxReady /\ ~Folding},
       learns |-> IF (request /\ kind = Rate) \/ ((request \/ done) /\ kind \in {DeviceId, Port})
                  THEN [kind |-> kind, upper |-> x.word.upper]
                  ELSE [kind |-> NoOp, upper |-> 0],
       missed |-> late,
       error |-> error_ready \/ (~RemoteReady(r, x.limit) /\ error_blocked),
       registers |->
         [local_busy |-> start \/ (r.local_busy /\ ~done),
          local_sent |-> ~start /\ ~done /\ (r.local_sent \/ commit),
          local_kind |-> IF start THEN x.kind ELSE r.local_kind,
          local_upper |-> IF start THEN RequestUpper(x) ELSE r.local_upper,
          remote_busy |-> request \/ (r.remote_busy /\ ~reply),
          remote_kind |-> IF request THEN kind ELSE r.remote_kind,
          remote_upper |-> IF request THEN IdentityUpper(kind, x.own) ELSE r.remote_upper,
          remote_rate |-> IF request THEN x.word.upper ELSE r.remote_rate,
          local_first |-> IF request THEN LocalFirst(r, commit) ELSE r.local_first /\ ~start,
          age |-> IF request \/ reply \/ ~r.remote_busy THEN 0
                  ELSE IF r.age # AckEdges THEN r.age + 1 ELSE r.age,
          missed |-> ~request /\ ~reply /\ (r.missed \/ late)]]
-------------------------------------------------------------------------------
BasicInit == /\ ends = [p \in Ends |-> BasicReset]
             /\ wire = [p \in Ends |-> << >>]

Input(valid, kind, rate, own, limit, arrives, word, take) ==
  [valid |-> valid, kind |-> kind, rate |-> rate, own |-> own, symbols |-> TRUE,
   limit |-> limit, arrives |-> arrives, word |-> word, take |-> take]

\* The identity of a peer is configured once.
OwnIdentity == CHOOSE i \in Identities : TRUE

\* One edge of an end: it may start a request, receives the next word or lets it
\* wait, and the arbiter takes one of its heads or none.
PeerEdge(p, kind, rate, limit, arrives, take) ==
  LET word == IF arrives THEN Head(wire[p]) ELSE NoWord
      e == Edge(ends[p], Input(kind # NoOp, kind, rate, OwnIdentity, limit, arrives, word, take))
  IN  /\ arrives => wire[p] # << >>
      /\ take \subseteq DOMAIN e.words
      /\ ends' = [ends EXCEPT ![p] = e.next]
      /\ wire' = [wire EXCEPT ![p] = IF arrives THEN Tail(@) ELSE @,
                              ![Peer(p)] = IF take = {} THEN @
                                           ELSE Append(@, e.words[CHOOSE k \in take : TRUE])]
      /\ UNCHANGED alone

Takes == {{}} \cup {{k} : k \in Kinds}
Limits == Rates \cup {NoLimit}

LocalInputs == {<<NoOp, 0>>} \cup {<<k, 0>> : k \in Starts \ {Rate}}
               \cup {<<Rate, r>> : r \in Rates \cap IF Rate \in Starts THEN Rates ELSE {}}

BasicNext ==
  \E p \in Ends, l \in LocalInputs, limit \in Limits, arrives \in BOOLEAN, take \in Takes :
    PeerEdge(p, l[1], l[2], limit, arrives, take)

\* Every clock runs, words arrive in the end, the arbiter serves every waiting head,
\* and the pacing comes down to the least rate that is asked for.
LeastRate == CHOOSE r \in Rates : \A q \in Rates : r <= q
Arrival(p) == \E l \in LocalInputs, limit \in Limits, take \in Takes :
                PeerEdge(p, l[1], l[2], limit, TRUE, take)
Service(p, k) == \E l \in LocalInputs, arrives \in BOOLEAN :
                   PeerEdge(p, l[1], l[2], LeastRate, arrives, {k})
-------------------------------------------------------------------------------
(* The end that stands alone.                                                  *)

AnyWords == {[basic |-> basic, kind |-> k, ack |-> ack, upper |-> u] :
               basic \in BOOLEAN, k \in Kinds \cup {NoOp, 2}, ack \in BOOLEAN, u \in Rates}

AnyInputs ==
  {Input(v, k, r, own, limit, a, w, take) :
     v \in BOOLEAN, k \in Kinds \cup {2}, r \in Rates, own \in Identities, limit \in Limits,
     a \in BOOLEAN, w \in AnyWords, take \in Takes \cup {{Rate, DeviceId}}}

\* One input for each effect: what an edge does not read is fixed.
OpenInputs ==
  {x \in AnyInputs :
     /\ x.rate = LeastRate \/ (x.valid /\ x.kind = Rate)
     /\ ~x.valid => x.kind \in {TxReady, Rate}
     /\ ~x.arrives => x.word = [basic |-> FALSE, kind |-> 2, ack |-> FALSE, upper |-> LeastRate]
     /\ ~x.word.basic => x.word.kind = 2 /\ x.word.upper = LeastRate
     /\ x.word.upper = LeastRate \/ (x.word.kind = Rate /\ ~x.word.ack)
     /\ \/ x.own = OwnIdentity
        \/ x.valid /\ x.kind \in {DeviceId, Port}
        \/ x.word.basic /\ x.word.kind \in {DeviceId, Port}}

\* Those that may change something.
LegalInputs ==
  {x \in OpenInputs : /\ Cardinality(x.take) <= 1
                      /\ x.valid => x.kind \in Kinds
                      /\ x.arrives => x.word.basic /\ x.word.kind \in Kinds}

OpenEdge == \E b \in alone, x \in LegalInputs : /\ alone' = {Edge(b, x).next}
                                               /\ UNCHANGED <<ends, wire>>
-------------------------------------------------------------------------------
(* Properties.                                                                 *)

\* Between two ends that follow the protocol no acknowledgement comes without
\* its request, and no request while another is still to be answered: the orders
\* in which one edge may start, send, receive and answer never cross on the wires.
NoProtocolError ==
  \A p \in Ends :
    wire[p] # << >> =>
      Verdict(ends[p], Head(wire[p])) \in {"ack", "request"}

\* Every request is answered, and the end is free to start the next.
EveryRequestAnswered == \A p \in Ends : []<>(ends[p].local.kind = NoOp)

\* The hardware keeps one order bit instead of queues and an age counter instead
\* of times, and decides late what the pacing allows.  In one edge with any
\* input, legal or not, it shows the same words, verdicts and errors as the
\* reference and goes to the same state.
HardwareKeepsBasic ==
  \A b \in alone, x \in OpenInputs : \A e \in {Edge(b, x)}, stale \in StaleKinds(b) :
    \A hw \in {HwBasic(RegistersOf(b, stale), x)} :
        /\ hw.ready = e.ready /\ hw.pending = e.pending /\ hw.waiting = e.waiting
        /\ hw.owes = e.owes
        /\ hw.words = [k \in DOMAIN e.words |-> {e.words[k]}]
        /\ hw.start = e.start /\ hw.commit = e.commit /\ hw.reply = e.reply
        /\ hw.verdicts = {e.verdict} \ {"none"} /\ hw.learns = e.learns
        /\ hw.missed = e.missed /\ hw.error = e.error
        /\ Meaning(hw.registers) = Meaning(RegistersOf(e.next, NoOp))
===============================================================================
