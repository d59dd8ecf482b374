--------------------------- MODULE FlitSequence ---------------------------
(***************************************************************************)
(* What a transaction-layer Flit may be, given the Flits before it.  A     *)
(* Flit has a lower and an upper half; either may be replaced by a         *)
(* message.  The sequencer knows which data and byte-enable halves are     *)
(* still owed; the content monitor checks that both halves of a data pair  *)
(* are poisoned or neither is; the packing budget limits the fields of one *)
(* half by what earlier Flits carried.                                     *)
(*                                                                         *)
(* Pending halves are kept as the tokens of ControlFields, which carry the *)
(* kind that the sequencer sees and the credit that credit_context and     *)
(* receive_context attach to it: the three keep one queue each in the      *)
(* code, and the hardware keeps a count, one byte-enable bit per position  *)
(* and a row of tokens.                                                    *)
(*                                                                         *)
(* Reference: src/model/tl/tl_sequence.py, tl_content.py,                  *)
(* tl_packing_budget.py, tx_validation.py, credit_context.py (Context),    *)
(* receive_context.py.  Hardware: tl_sequence, tl_content,                 *)
(* tl_packing_budget, tl_atomic_admission, tl_full_flit, tl_credit_context *)
(* and tl_receive_context of src/rtl/tl.                                   *)
(***************************************************************************)
EXTENDS ControlFields

CONSTANTS RequestBudget, ResponseBudget    \* 4 and 8 in the code

\* A Flit: the message in each half ("none" for none), the Control half as it
\* would be read, and how many of the four 64-bit words of the upper half are
\* in use.
Messages == {"nop", "init", "initShared", "poison", "reserved"}
NoMessage == "none"

KindsOf(pending) == [i \in DOMAIN pending |-> pending[i].kind]
IsControl(pending, flit) == Len(pending) <= 1 /\ flit.msg[1] = NoMessage
FieldsOf(pending, flit) ==
    IF IsControl(pending, flit) THEN Derive(flit.cells).records ELSE <<>>

---------------------------------------------------------------------------
(* Sequencer.step. *)

Owed(queue) == IF Head(queue).kind = "D" THEN "DATA" ELSE "BYTE_ENABLE"

\* Slip: a poison message in place of a data half does not use the half up.
AfterPoisonKeeping(queue) == queue

AfterPoison(queue) == IF queue = <<>> THEN queue ELSE Tail(queue)

\* consume(message, expected).
Consume(queue, message, expected) ==
    CASE expected = "AUTH" ->
             [ok |-> message = NoMessage, class |-> "AUTH", queue |-> queue]
      [] expected # "AUTH" /\ message = "poison" ->
             [ok |-> expected = "DATA", class |-> "POISON",
              queue |-> AfterPoison(queue)]
      [] expected # "AUTH" /\ message \notin {"poison", NoMessage} ->
             [ok |-> TRUE, class |-> "MESSAGE", queue |-> queue]
      [] OTHER ->
             [ok |-> TRUE, class |-> expected,
              queue |-> IF expected \in {"DATA", "BYTE_ENABLE"} THEN Tail(queue)
                                                                ELSE queue]

\* The Control or message slot: at most one half is still owed.
SlotStep(auth, pending, flit, fields) ==
    LET trailing == pending # <<>>
        control == flit.msg[1] = NoMessage
        queue == IF control THEN pending \o Tokens(fields) ELSE pending
        expected == CASE trailing -> Owed(queue)
                      [] ~trailing /\ control /\ auth /\ fields # <<>> -> "AUTH"
                      [] ~trailing /\ ~(control /\ auth /\ fields # <<>>)
                            /\ control /\ queue # <<>> -> Owed(queue)
                      [] OTHER -> "NOP"
        upper == Consume(queue, flit.msg[2], expected)
    IN  [ok |-> /\ flit.msg[1] # "poison"
                /\ ~(control /\ auth /\ (Len(fields) > 4
                                         \/ (trailing /\ fields # <<>>)))
                /\ upper.ok,
         classes |-> <<IF control THEN "CONTROL" ELSE "MESSAGE", upper.class>>,
         pending |-> upper.queue]

\* Two halves are owed: both slots carry data, or messages in their place.
DataStep(pending, flit) ==
    LET lower == Consume(pending, flit.msg[1], Owed(pending))
        upper == Consume(lower.queue, flit.msg[2], Owed(lower.queue))
    IN  [ok |-> lower.ok /\ upper.ok, classes |-> <<lower.class, upper.class>>,
         pending |-> upper.queue]

SequenceStep(auth, pending, flit) ==
    LET Checked(step) ==
            IF \/ \E i \in 1 .. 2 : flit.msg[i] = "reserved"
               \/ IsControl(pending, flit) /\ Derive(flit.cells).status # "ok"
               \/ ~step.ok
            THEN [ok |-> FALSE, classes |-> <<"QUIET", "QUIET">>, pending |-> pending]
            ELSE step
    IN  Checked(IF Len(pending) <= 1
                THEN SlotStep(auth, pending, flit, FieldsOf(pending, flit))
                ELSE DataStep(pending, flit))

DataClasses == {"DATA", "BYTE_ENABLE", "POISON"}

\* The tokens a Flit uses up.
UsedTokens(pending, fields, classes) ==
    SubSeq(pending \o Tokens(fields), 1,
           Cardinality({i \in 1 .. 2 : classes[i] \in DataClasses}))

Reserved(tokens) ==
    [s \in Slots |-> Cardinality({i \in DOMAIN tokens : tokens[i].reserve
                                                        /\ tokens[i].slot = s})]

\* Context.step: the credit a Flit costs its sender.
Demands(fields, used) == Plus(CommandDemands(fields), Reserved(used))

\* ReceiveContext.step: the credit its retirement gives back.
Releases(fields, used) ==
    [s \in Slots |-> HeaderReleases(fields)[s]
        + Cardinality({i \in DOMAIN used : used[i].data /\ used[i].slot = s})
        + Cardinality({i \in DOMAIN used : used[i].cmd
                                           /\ used[i].slot - DataPool = s})]

\* Whether the receiver has to keep the Flit.
Stores(fields, classes) ==
    fields # <<>> \/ \E i \in 1 .. 2 : classes[i] \in DataClasses

---------------------------------------------------------------------------
(* Content.step, PackingBudget.step and TxValidation.step. *)

NewContent == [open |-> FALSE, poison |-> FALSE]

ContentHalf(c, class, used, tags) ==
    LET data == class \in {"DATA", "POISON"}
        mark == class = "POISON"
    IN  [open |-> IF data THEN ~c.open ELSE c.open,
         poison |-> IF data THEN ~c.open /\ mark ELSE c.poison,
         bad |-> \/ c.bad
                 \/ class = "NOP" /\ used > 0
                 \/ class = "AUTH" /\ (tags \notin 1 .. 4 \/ used > tags)
                 \/ data /\ c.open /\ c.poison # mark
                 \/ class = "BYTE_ENABLE" /\ c.open]

ContentStep(c, classes, used, tags) ==
    ContentHalf(ContentHalf([open |-> c.open, poison |-> c.poison, bad |-> FALSE],
                            classes[1], 0, tags),
                classes[2], used, tags)

NewBudget == [requests |-> 0, responses |-> 0]
RequestsIn(fields) == Sum(fields, LAMBDA f : IF f.kind \in RequestKinds THEN 1 ELSE 0)
ResponsesIn(fields) == Sum(fields, LAMBDA f : IF f.kind \in RequestKinds THEN 0 ELSE 1)

BudgetFits(b, rq, rs) == rq <= RequestBudget - b.requests /\ rs <= ResponseBudget - b.responses
BudgetAfter(b, rq, rs) ==
    [requests |-> Max({0, b.requests + rq - 1}),
     responses |-> Max({0, b.responses + rs - 1})]

\* One direction of one end: sequence, content monitor and budget.
NewFlow == [pending |-> <<>>, content |-> NewContent, budget |-> NewBudget]

\* TxValidation.step, and the same composition in Integrated.step.
FlowStep(auth, flow, flit) ==
    LET Checked(seq, content, rq, rs) ==
            LET ok == seq.ok /\ BudgetFits(flow.budget, rq, rs) /\ ~content.bad
            IN  [ok |-> ok,
                 classes |-> IF ok THEN seq.classes ELSE <<"QUIET", "QUIET">>,
                 flow |-> IF ok THEN [pending |-> seq.pending,
                                      content |-> [open |-> content.open,
                                                   poison |-> content.poison],
                                      budget |-> BudgetAfter(flow.budget, rq, rs)]
                                ELSE flow]
        Read(fields, seq) ==
            Checked(seq, ContentStep(flow.content, seq.classes, flit.used, Len(fields)),
                    RequestsIn(fields), ResponsesIn(fields))
    IN  Read(FieldsOf(flow.pending, flit), SequenceStep(auth, flow.pending, flit))

---------------------------------------------------------------------------
(* The hardware.  Its registers are functions of the pending queue: the    *)
(* count, the byte-enable bits and the row of credit tokens.               *)

HwPending(pending) ==
    [count |-> Len(pending),
     be |-> {i \in DOMAIN pending : pending[i].kind = "B"},
     tokens |-> [i \in DOMAIN pending |->
         [slot |-> pending[i].slot, reserve |-> pending[i].reserve,
          data |-> pending[i].data, cmd |-> pending[i].cmd]]]

\* The token rows of tl_credit_context and tl_receive_context: the token at
\* position j of the field that starts at sector i.
HwTokenRow(ten, slot, i) ==
    LET length == ten.counts[i] + (IF i \in ten.be THEN 1 ELSE 0)
    IN  [j \in 1 .. length |->
            [slot |-> slot[i],
             reserve |-> (j - 1) % 2 = 0 /\ j - 1 < ten.counts[i],
             data |-> (j - 1) % 2 = 1 /\ j - 1 < ten.counts[i],
             cmd |-> length = j]]

\* What the two contexts add up: commands when the header goes by, then the
\* tokens used, each with the slot it names.
HwTally(spent, P(_), shift) ==
    [s \in Slots |-> Cardinality({i \in DOMAIN spent : P(spent[i])
                                                        /\ spent[i].slot - shift = s})]
HwDemands(starts, slot, spent) ==
    Plus([s \in Slots |-> Cardinality({i \in starts : slot[i] - DataPool = s})],
         HwTally(spent, LAMBDA t : t.reserve, 0))
HwReleases(starts, slot, lengths, spent) ==
    Plus(Plus([s \in Slots |-> Cardinality({i \in starts :
                                   slot[i] - DataPool = s /\ lengths[i] = 0})],
              HwTally(spent, LAMBDA t : t.data, 0)),
         HwTally(spent, LAMBDA t : t.cmd, DataPool))

\* tl_sequence together with the two context modules around it; the decoders
\* have read the half.
HwSequence(auth, regs, flit, ten, dec) ==
    LET slot == [i \in Sectors |-> HwSlot(flit.cells, dec.requests, i)]
        order == [i \in 1 .. 8 |-> i - 1]
        lengths == [i \in Sectors |-> ten.counts[i] + (IF i \in ten.be THEN 1 ELSE 0)]
        before(i) == FoldSet(LAMBDA k, n : n + lengths[k], 0, 0 .. i - 1)
        marks == {before(i) + ten.counts[i] + 1 : i \in ten.be}
        row == FlattenSeq([k \in 1 .. 8 |-> HwTokenRow(ten, slot, order[k])])
        low == regs.count <= 1
        control == low /\ flit.msg[1] = NoMessage
        be == IF control THEN regs.be \cup {regs.count + m : m \in marks} ELSE regs.be
        count == IF control THEN regs.count + before(8) ELSE regs.count
        tokens == IF control THEN regs.tokens \o row ELSE regs.tokens
        kind(set, i) == IF i \in set THEN "BYTE_ENABLE" ELSE "DATA"
        upperExpected == CASE regs.count = 1 -> kind(regs.be, 1)
                           [] regs.count = 0 /\ control /\ auth /\ ten.fields # 0 -> "AUTH"
                           [] regs.count = 0 /\ control /\ ~(auth /\ ten.fields # 0)
                                 /\ before(8) > 0 -> kind(marks, 1)
                           [] OTHER -> "NOP"
        pop0 == ~low /\ (flit.msg[1] = NoMessage
                         \/ (flit.msg[1] = "poison" /\ 1 \notin regs.be))
        second == IF low THEN upperExpected ELSE kind(regs.be, IF pop0 THEN 2 ELSE 1)
        lower == CASE low -> IF flit.msg[1] = NoMessage THEN "CONTROL" ELSE "MESSAGE"
                   [] ~low /\ flit.msg[1] = NoMessage -> kind(regs.be, 1)
                   [] ~low /\ flit.msg[1] = "poison" -> "POISON"
                   [] OTHER -> "MESSAGE"
        upper == CASE second = "AUTH" \/ flit.msg[2] = NoMessage -> second
                   [] second # "AUTH" /\ flit.msg[2] = "poison" -> "POISON"
                   [] OTHER -> "MESSAGE"
        pop1 == second \in {"DATA", "BYTE_ENABLE"}
                /\ (flit.msg[2] = NoMessage \/ (flit.msg[2] = "poison" /\ second = "DATA"))
        pops == (IF pop0 THEN 1 ELSE 0) + (IF pop1 THEN 1 ELSE 0)
        valid == /\ "reserved" \notin {flit.msg[1], flit.msg[2]}
                 /\ low => flit.msg[1] # "poison"
                 /\ control => /\ ten.status = "ok"
                               /\ ~(auth /\ (ten.fields > 4
                                             \/ (regs.count = 1 /\ ten.fields # 0)))
                 /\ ~(~low /\ flit.msg[1] = "poison" /\ 1 \in regs.be)
                 /\ flit.msg[2] # NoMessage =>
                        /\ second # "AUTH"
                        /\ flit.msg[2] = "poison" => second = "DATA"
        starts == IF control THEN dec.requests \cup dec.responses ELSE {}
        spent == SubSeq(tokens, 1, pops)
    IN  [ok |-> valid,
         classes |-> IF valid THEN <<lower, upper>> ELSE <<"QUIET", "QUIET">>,
         regs |-> IF ~valid THEN regs
                  ELSE [count |-> count - pops,
                        be |-> {i - pops : i \in {k \in be : k > pops}},
                        tokens |-> SubSeq(tokens, pops + 1, Len(tokens))],
         demands |-> IF valid THEN HwDemands(starts, slot, spent) ELSE Nothing,
         releases |-> IF valid THEN HwReleases(starts, slot, lengths, spent) ELSE Nothing]

\* tl_packing_budget: the sums are cut back to the width of the registers.
HwBudget(b, rq, rs) ==
    LET next(total, width) ==
            IF total = 0 THEN 0 ELSE ((total % width) + width - 1) % width
    IN  [allowed |-> /\ rq <= RequestBudget - b.requests
                     /\ rs <= ResponseBudget - b.responses,
         budget |-> [requests |-> next(b.requests + rq, RequestBudget),
                     responses |-> next(b.responses + rs, ResponseBudget)]]

\* tl_content: one pass over both halves, which share the flags.
HwContent(c, classes, used, tags) ==
    LET poison(i) == classes[i] = "POISON"
        pair(i) == classes[i] \in {"DATA", "POISON"}
        open1 == IF pair(1) THEN ~c.open ELSE c.open
        mark1 == IF pair(1) THEN ~c.open /\ poison(1) ELSE c.poison
        word(i) == IF i = 1 THEN 0 ELSE used
        bad(i, open, mark) ==
            CASE classes[i] = "NOP" -> word(i) # 0
              [] classes[i] = "AUTH" -> IF tags \in 1 .. 4 THEN word(i) > tags ELSE TRUE
              [] pair(i) -> open /\ mark # poison(i)
              [] OTHER -> classes[i] = "BYTE_ENABLE" /\ open
    IN  [bad |-> bad(1, c.open, c.poison) \/ bad(2, open1, mark1),
         open |-> IF pair(2) THEN ~open1 ELSE open1,
         poison |-> IF pair(2) THEN ~open1 /\ poison(2) ELSE mark1]

\* tl_atomic_admission: sequence and budget move together or not at all.
HwAdmit(auth, flow, flit) ==
    LET Joined(seq, budget) ==
            LET ok == seq.ok /\ budget.allowed
            IN  [ok |-> ok, classes |-> IF ok THEN seq.classes ELSE <<"QUIET", "QUIET">>,
                 regs |-> seq.regs, budget |-> budget.budget,
                 demands |-> seq.demands, releases |-> seq.releases]
        Read(regs, dec, control) ==
            Joined(HwSequence(auth, regs, flit, HwTenure(flit.cells), dec),
                   HwBudget(flow.budget,
                            IF control THEN Cardinality(dec.requests) ELSE 0,
                            IF control THEN Cardinality(dec.responses) ELSE 0))
    IN  Read(HwPending(flow.pending), HwDecode(flit.cells),
             Len(flow.pending) <= 1 /\ flit.msg[1] = NoMessage)

\* tl_full_flit: the admission and the content check, each committed only with
\* the other's consent.
HwFullFlit(auth, flow, flit) ==
    LET Joined(admit, content) ==
            LET ok == admit.ok /\ ~content.bad
            IN  [ok |-> ok, classes |-> IF ok THEN admit.classes ELSE <<"QUIET", "QUIET">>,
                 regs |-> IF ok THEN admit.regs ELSE HwPending(flow.pending),
                 content |-> IF ok THEN [open |-> content.open, poison |-> content.poison]
                                   ELSE flow.content,
                 budget |-> IF ok THEN admit.budget ELSE flow.budget,
                 demands |-> admit.demands, releases |-> admit.releases]
        Read(admit) == Joined(admit, HwContent(flow.content, admit.classes, flit.used,
                                               HwTenure(flit.cells).fields))
    IN  Read(HwAdmit(auth, flow, flit))
===========================================================================
