--------------------------- MODULE ControlFields ---------------------------
(***************************************************************************)
(* A Control half carries fields packed into eight 32-bit sectors: 1       *)
(* (request, four sectors), 2 (response, two), 3 (short request, two), 4   *)
(* and 5 (short responses, one); kind 0 is padding, or a credit word when  *)
(* it is not zero.  The nibble at the top of a field names its kind, so a  *)
(* half is read from the top down.  Each field is followed by the data     *)
(* halves of its tenure, and perhaps a byte-enable half.                   *)
(*                                                                         *)
(* A sector is abstracted to the record [kind, lane, halves, be, fault,    *)
(* busy] of the field whose top sector it would be.  Below the top sector  *)
(* of a wide field a sector may hold anything.                             *)
(*                                                                         *)
(* Reference: src/model/tl/tl_tenure.py, credit_context.py (decode_context),*)
(* credit_events.py, credit_admission.py, control_partition.py,            *)
(* prepared_partition.py.  Hardware: the tl_control_decode,                *)
(* tl_control_tenure, tl_credit_admission, tl_control_partition and        *)
(* tl_prepared_partition modules of src/rtl/tl.                            *)
(***************************************************************************)
EXTENDS CreditLedger, SequencesExt

Sectors == 0 .. 7
Wide == 1
Double == {2, 3}
Single == {4, 5}
RequestKinds == {1, 3}
Cells == [kind : 0 .. 15, lane : 0 .. Lanes - 1, halves : {0, 2, 4, 6, 8},
          be : BOOLEAN, fault : {"ok", "bad", "unresolved"}, busy : BOOLEAN]
Padding == [kind |-> 0, lane |-> 0, halves |-> 0, be |-> FALSE,
            fault |-> "ok", busy |-> FALSE]

Width(kind) == CASE kind = Wide -> 4
                 [] kind \in Double -> 2
                 [] OTHER -> 1

\* A field as the layers above see it.
FieldOf(sector, cell) ==
    [sector |-> sector, kind |-> cell.kind, lane |-> cell.lane,
     halves |-> cell.halves, be |-> cell.be]

\* derive_control: parse[e] reads the sectors below e.
Derive(cells) ==
    LET failed(why) == [status |-> why, records |-> <<>>]
        parse[e \in 0 .. 8] ==
            IF e = 0 THEN [status |-> "ok", records |-> <<>>]
            ELSE LET cell == cells[e - 1]
                     start == e - Width(cell.kind)
                 IN  CASE cell.kind \in {6, 7} -> failed("unresolved")
                       [] cell.kind > 7 -> failed("bad")
                       [] cell.kind < 6 /\ (start < 0 \/ start % Width(cell.kind) # 0) ->
                              failed("bad")
                       [] OTHER ->
                              LET rest == parse[start]
                              IN  CASE cell.fault # "ok" -> failed(cell.fault)
                                    [] cell.fault = "ok" /\ rest.status # "ok" -> rest
                                    [] OTHER ->
                                       [status |-> "ok",
                                        records |-> IF cell.kind = 0 THEN rest.records
                                            ELSE Append(rest.records,
                                                        FieldOf(start, cell))]
    IN  parse[8]

\* credit_events.decode reads the same half from the bottom up.
EventFields(cells) ==
    LET prefix[e \in 0 .. 8] ==
            IF e = 0 THEN [valid |-> TRUE, starts |-> {}]
            ELSE LET kind == cells[e - 1].kind
                     start == e - Width(kind)
                 IN  IF \/ kind > 5 \/ start < 0 \/ start % Width(kind) # 0
                        \/ ~prefix[start].valid
                     THEN [valid |-> FALSE, starts |-> {}]
                     ELSE [valid |-> TRUE, starts |-> prefix[start].starts \cup {start}]
    IN  prefix[8]

---------------------------------------------------------------------------
(* Tokens and credit of a sequence of fields. *)

Role(f) == IF f.kind \in RequestKinds THEN 0 ELSE 1
CommandSlot(f) == Role(f) * Lanes + f.lane
DataSlot(f) == DataPool + Role(f) * Lanes + f.lane
TenureLength(f) == f.halves + (IF f.be THEN 1 ELSE 0)

\* One token per half-Flit of the tenure: the first half of a pair reserves
\* a data credit, the second returns it, the last token returns the command.
FieldTokens(f) ==
    [i \in 1 .. TenureLength(f) |->
        [kind |-> IF i <= f.halves THEN "D" ELSE "B",
         slot |-> DataSlot(f),
         reserve |-> i <= f.halves /\ i % 2 = 1,
         data |-> i <= f.halves /\ i % 2 = 0,
         cmd |-> i = TenureLength(f)]]

Tokens(fields) == FlattenSeq([i \in DOMAIN fields |-> FieldTokens(fields[i])])

Sum(fields, amount(_)) ==
    FoldSet(LAMBDA i, n : amount(fields[i]) + n, 0, DOMAIN fields)

\* decode_context: the command credit a Control half asks for.
CommandDemands(fields) ==
    [s \in Slots |-> Sum(fields, LAMBDA f : IF CommandSlot(f) = s THEN 1 ELSE 0)]

\* Command credit of fields without tenure is returned with the header.
HeaderReleases(fields) ==
    [s \in Slots |-> Sum(fields, LAMBDA f :
        IF CommandSlot(f) = s /\ TenureLength(f) = 0 THEN 1 ELSE 0)]

\* requirements: the credit of a Control half and its whole tenure.
Requirements(fields, shared) ==
    LET raw == [s \in Slots |-> Sum(fields, LAMBDA f :
                   (IF CommandSlot(f) = s THEN 1 ELSE 0)
                   + (IF DataSlot(f) = s THEN f.halves \div 2 ELSE 0))]
    IN  IF shared THEN Pooled(raw) ELSE raw

\* Slip: a header is admitted on its command credit alone.
AdmitsCommandOnly(fields, available, shared, done) ==
    \/ Requirements(fields, shared) = Nothing
    \/ done /\ Fits(CommandDemands(fields), available)

\* admit: whether the whole tenure is affordable now.
Admits(fields, available, shared, done) ==
    LET need == Requirements(fields, shared)
    IN  need = Nothing \/ (done /\ Fits(need, available))

Shortfall(fields, capacity, shared, done) ==
    done /\ ~Fits(Requirements(fields, shared), capacity)

---------------------------------------------------------------------------
(* The decoders in hardware. *)

\* tl_control_decode: valid, and the sectors at which fields start, from a
\* tree of pairs and quads.
HwDecode(cells) ==
    LET kind(i) == cells[i].kind
        single(i) == kind(i) \in {0} \cup Single
        double(j) == kind(2 * j + 1) \in Double
        pairOk(j) == double(j) \/ (single(2 * j) /\ single(2 * j + 1))
        full(q) == kind(4 * q + 3) = Wide
        ok == \A q \in 0 .. 1 : full(q) \/ (pairOk(2 * q) /\ pairOk(2 * q + 1))
        start(i) == LET j == i \div 2 IN LET q == i \div 4 IN
            IF full(q) THEN i % 4 = 0
            ELSE double(j) => i % 2 = 0
        request(i) == LET j == i \div 2 IN LET q == i \div 4 IN
            IF full(q) THEN i % 4 = 0
            ELSE i % 2 = 0 /\ kind(2 * j + 1) = 3
        response(i) == LET j == i \div 2 IN LET q == i \div 4 IN
            /\ ~full(q)
            /\ IF double(j) THEN i % 2 = 0 /\ kind(2 * j + 1) = 2
                            ELSE kind(i) \in Single
        those(P(_)) == {i \in Sectors : ok /\ P(i)}
    IN  [valid |-> ok, starts |-> those(start),
         requests |-> those(request), responses |-> those(response)]

\* tl_control_tenure: every sector is read as if a field ended there; masks
\* then discard the sectors that lie inside a wider field.
HwTenure(cells) ==
    LET kind(i) == cells[i].kind
        aligned(i) == CASE kind(i) = Wide -> i % 4 = 3
                        [] kind(i) \in Double -> i % 2 = 1
                        [] OTHER -> TRUE
        status(i) == CASE kind(i) \in {6, 7} -> "unresolved"
                       [] kind(i) > 7 \/ ~aligned(i) -> "bad"
                       [] OTHER -> cells[i].fault
        four(i) == kind(4 * (i \div 4) + 3) = Wide
        two(i) == kind(2 * (i \div 2) + 1) \in Double
        used(i) == CASE i % 4 = 3 -> TRUE
                     [] i % 4 = 1 -> ~four(i)
                     [] OTHER -> ~four(i) /\ ~two(i)
        failing == {i \in Sectors : used(i) /\ status(i) # "ok"}
        base(i) == i + 1 - Width(kind(i))
        fields == {i \in Sectors : used(i) /\ kind(i) # 0}
    IN  IF failing # {} THEN [status |-> status(Max(failing)), fields |-> 0,
                              counts |-> [s \in Sectors |-> 0], be |-> {}]
        ELSE [status |-> "ok", fields |-> Cardinality(fields),
              counts |-> [s \in Sectors |->
                  IF \E i \in fields : base(i) = s
                  THEN cells[CHOOSE i \in fields : base(i) = s].halves ELSE 0],
              be |-> {base(i) : i \in {j \in fields : cells[j].be}}]

\* The slot selectors: the data slot of the field that starts at sector i is
\* read at the sector where its kind nibble would be.
HwSlot(cells, requests, i) ==
    LET top == CASE i % 4 = 0 /\ cells[i + 3].kind = Wide -> i + 3
                 [] i % 2 = 0 /\ cells[i + 1].kind \in Double
                              /\ ~(i % 4 = 0 /\ cells[i + 3].kind = Wide) -> i + 1
                 [] OTHER -> i
    IN  (IF i \in requests THEN DataPool ELSE ResponsePool) + cells[top].lane

\* The credit of the fields starting in `starts`, per slot.
HwCost(starts, slot, counts, shared) ==
    [s \in Slots |->
        LET physical(i) == IF shared /\ slot[i] = ResponsePool THEN DataPool ELSE slot[i]
        IN  IF s < DataPool
            THEN Cardinality({i \in starts : slot[i] = s + DataPool})
            ELSE FoldSet(LAMBDA i, n : n + counts[i] \div 2, 0,
                         {i \in starts : physical(i) = s})]

\* tl_credit_admission.
HwAdmission(cells, available, capacity, shared, done) ==
    LET Checked(format, need) ==
            [need |-> need,
             allow |-> format /\ (need = Nothing \/ (done /\ Fits(need, available))),
             shortfall |-> format /\ done /\ ~Fits(need, capacity)]
        Pool(format, raw) ==
            Checked(format, IF ~format THEN Nothing ELSE IF shared THEN Pooled(raw) ELSE raw)
        Read(dec, ten) ==
            Pool(dec.valid /\ ten.status = "ok",
                 HwCost(dec.requests \cup dec.responses,
                        [i \in Sectors |-> HwSlot(cells, dec.requests, i)],
                        ten.counts, FALSE))
    IN  Read(HwDecode(cells), HwTenure(cells))

---------------------------------------------------------------------------
(* control_partition.choose: the longest run of fields, from the cursor on, *)
(* that ends between two fields and fits the capacity by itself.            *)

Limits(a) == IF a THEN 4 ELSE 8

WholeRun(records, end) ==
    \A i \in DOMAIN records :
        ~(records[i].sector < end /\ end < records[i].sector + Width(records[i].kind))

FormatOk(cells, response) ==
    LET dec == Derive(cells)
        covered == UNION {r.sector .. r.sector + Width(r.kind) - 1 : r \in Range(dec.records)}
    IN  /\ dec.status = "ok"
        /\ dec.records # <<>>
        /\ \A r \in Range(dec.records) : (r.kind \notin RequestKinds) = response
        /\ \A i \in Sectors \ covered : ~cells[i].busy

\* The fields that start between the cursor and the end of the run.
RunFrom(records, cursor, end) ==
    LET run[n \in 0 .. Len(records)] ==
            IF n = 0 THEN <<>>
            ELSE IF cursor <= records[n].sector /\ records[n].sector < end
                 THEN Append(run[n - 1], records[n]) ELSE run[n - 1]
    IN  run[Len(records)]

ChooseRun(cells, cursor, capacity, mode) ==
    LET Fitting(run) ==
            /\ run # <<>>
            /\ Len(run) <= Limits(mode.auth)
            /\ Fits(Requirements(run, mode.shared), capacity)
        Offered(records, error, end) ==
            [error |-> error, valid |-> ~error /\ end # 0, shortfall |-> ~error /\ end = 0,
             end |-> IF error THEN 0 ELSE end,
             run |-> IF error \/ end = 0 THEN <<>> ELSE RunFrom(records, cursor, end),
             before |-> Cardinality({i \in DOMAIN records : records[i].sector < cursor})]
        Read(records) ==
            Offered(records, ~FormatOk(cells, mode.response),
                    Max({0} \cup {e \in cursor + 1 .. 8 :
                                      /\ WholeRun(records, e)
                                      /\ Fitting(RunFrom(records, cursor, e))}))
    IN  Read(Derive(cells).records)

\* What the hardware makes of the boundaries b that fit.
HwRun(cells, dec, ten, cursor, mode, fits(_)) ==
    LET apps == dec.requests \cup dec.responses
        error == \/ ~dec.valid \/ ten.status # "ok" \/ ten.fields = 0
                 \/ IF mode.response THEN dec.requests # {} ELSE dec.responses # {}
                 \/ \E i \in dec.starts \ apps : cells[i].busy
        chosen(b) == {i \in apps : cursor <= i /\ i <= b}
        last == {b \in Sectors :
                    /\ ~error
                    /\ cursor < b + 1
                    /\ b = 7 \/ b + 1 \in dec.starts
                    /\ chosen(b) # {}
                    /\ mode.auth => Cardinality(chosen(b)) <= 4
                    /\ fits(b)}
        Longest(ends) ==
            [error |-> error, valid |-> ends # {}, shortfall |-> ~error /\ ends = {},
             end |-> IF ends = {} THEN 0 ELSE Max(ends) + 1,
             starts |-> IF ends = {} THEN {} ELSE chosen(Max(ends)),
             before |-> Cardinality({i \in apps : i < cursor})]
    IN  Longest(last)

\* tl_control_partition: the fields below the cursor are blanked, the rest is
\* decoded again, and all eight boundaries are costed at once.
HwChoose(cells, cursor, capacity, mode) ==
    LET masked == [i \in Sectors |-> IF cursor <= i THEN cells[i] ELSE Padding]
        Costed(dec, ten) ==
            LET slot == [i \in Sectors |-> HwSlot(masked, dec.requests, i)]
            IN  HwRun(cells, HwDecode(cells), HwTenure(cells), cursor, mode, LAMBDA b :
                    /\ dec.valid /\ ten.status = "ok"
                    /\ Fits(HwCost({i \in dec.requests \cup dec.responses : i <= b},
                                   slot, ten.counts, mode.shared), capacity))
    IN  Costed(HwDecode(masked), HwTenure(masked))

\* tl_prepared_partition: the group was decoded when it was captured; the
\* cursor only masks the fields that went before.
HwPrepared(cells, cursor, capacity, mode) ==
    LET Costed(dec, ten) ==
            LET slot == [i \in Sectors |-> HwSlot(cells, dec.requests, i)]
            IN  HwRun(cells, dec, ten, cursor, mode, LAMBDA b :
                    Fits(HwCost({i \in dec.requests \cup dec.responses :
                                     cursor <= i /\ i <= b},
                                slot, ten.counts, mode.shared), capacity))
    IN  Costed(HwDecode(cells), HwTenure(cells))
===========================================================================
