----------------------------- MODULE TlPartition -----------------------------
(***************************************************************************)
(* A group of fields that does not fit one Control half, or the initial    *)
(* capacity of the peer, is sent as several runs.  The partitioner keeps   *)
(* one group and a cursor and offers the longest run that fits; back       *)
(* pressure holds the offer.  The prepared partitioner takes a copy of the *)
(* group, with the capacities and modes of that moment; the direct one     *)
(* works on the head of its source, and offers nothing before the link is  *)
(* initialised.                                                            *)
(*                                                                         *)
(* Reference: src/model/tl/control_partition.py (choose, Partitioner.step),*)
(* prepared_partition.py.  Hardware: tl_control_partition,                 *)
(* tl_prepared_partition of src/rtl/tl.                                    *)
(***************************************************************************)
EXTENDS ControlFields

CONSTANTS Groups1,   \* groups that may come first: [cells, capacity, mode]
          Groups2    \* groups that may follow

ASSUME GroupsAssumption ==
    \A g \in Groups1 \cup Groups2 : g.cells \in [Sectors -> Cells]

VARIABLES style,     \* "prepared" or "direct"
          group,     \* the set of at most one group at hand
          cursor,    \* the first sector not yet sent
          sent       \* history: the runs taken from this group

partitionVars == <<style, group, cursor, sent>>

Chosen(g, at) == ChooseRun(g.cells, at, g.capacity, g.mode)
Records(g) == Derive(g.cells).records

PartitionInit ==
    /\ style \in {"prepared", "direct"}
    /\ group \in {{g} : g \in Groups1}
    /\ cursor = 0
    /\ sent = <<>>

\* Slip: after a run the cursor moves past the last field, not past the run.
CursorAfterPastField(out) == Last(out.run).sector + 1

CursorAfter(out) == IF out.end = 8 THEN 0 ELSE out.end

\* One clock edge; run[g] is what is offered of the group at hand.
PartitionEdge(run, ready, done, offered) ==
    LET taken == {g \in group : run[g].valid /\ ready /\ (style = "direct" => done)}
        finished == {g \in taken : run[g].end = 8}
        sourceReady == (style = "prepared" => done) /\ group = finished
    IN  /\ group' = (group \ finished) \cup (IF sourceReady THEN offered ELSE {})
        /\ IF taken = {} THEN UNCHANGED <<cursor, sent>>
           ELSE \E g \in taken :
                    /\ cursor' = CursorAfter(run[g])
                    /\ sent' = IF finished = taken THEN <<>> ELSE sent \o run[g].run
        /\ UNCHANGED style

Partition == \E run \in {[g \in group |-> Chosen(g, cursor)]} :
                 \E ready, done \in BOOLEAN :
                     \E offered \in {{}} \cup {{g} : g \in Groups2} :
                         PartitionEdge(run, ready, done, offered)

PartitionReset ==
    /\ group' = {}
    /\ cursor' = 0
    /\ sent' = <<>>
    /\ UNCHANGED style

PartitionNext == Partition \/ PartitionReset
PartitionSpec == PartitionInit /\ [][PartitionNext]_partitionVars

---------------------------------------------------------------------------

\* The runs taken so far and the fields from the cursor on are the fields of
\* the group: no field is lost, repeated, split or moved before another.
FieldsInOrder ==
    \A g \in group :
        LET records == Records(g)
        IN  Derive(g.cells).status = "ok" =>
                /\ sent = RunFrom(records, 0, cursor)
                /\ records # <<>> /\ cursor > 0 =>
                       RunFrom(records, cursor, 8) # <<>>

\* A group without an error never gets stuck: if each of its fields fits the
\* capacity by itself, there is always a run to send.
NeverStuck ==
    \A g \in group :
        /\ FormatOk(g.cells, g.mode.response)
        /\ \A r \in Range(Records(g)) : Fits(Requirements(<<r>>, g.mode.shared), g.capacity)
        => Chosen(g, cursor).valid

\* A group goes out whole, in order, and never gets stuck (control_partition.py).
GroupsGoOutWhole == FieldsInOrder /\ NeverStuck

\* Every decoder of a Control half reads the same fields, lengths and credit
\* (derive_control, credit_events.decode, and four modules of hardware), and
\* both partitioners in hardware choose the run the reference chooses.
DecodersAgree ==
    \A g \in group :
      \A dec \in {Derive(g.cells)}, events \in {EventFields(g.cells)},
         hwDec \in {HwDecode(g.cells)}, hwTen \in {HwTenure(g.cells)},
         admission \in {HwAdmission(g.cells, g.capacity, g.capacity, g.mode.shared, TRUE)},
         out \in {Chosen(g, cursor)} :
        LET run == [error |-> out.error, valid |-> out.valid, shortfall |-> out.shortfall,
                    end |-> out.end, starts |-> {r.sector : r \in Range(out.run)}]
            same(hw) == /\ \A f \in DOMAIN run : hw[f] = run[f]
                        /\ ~out.error => hw.before = out.before
        IN  /\ hwDec.valid = events.valid
            /\ events.valid => hwDec.starts = events.starts
            /\ hwTen.status = dec.status
            /\ dec.status = "ok" =>
                  /\ events.valid
                  /\ hwTen.fields = Len(dec.records)
                  /\ {r.sector : r \in Range(dec.records)}
                         = hwDec.requests \cup hwDec.responses
                  /\ \A r \in Range(dec.records) :
                        /\ hwTen.counts[r.sector] = r.halves
                        /\ r.sector \in hwTen.be <=> r.be
                        /\ r.sector \in hwDec.requests <=> r.kind \in RequestKinds
                  /\ admission.need = Requirements(dec.records, g.mode.shared)
                  /\ admission.allow =
                        Admits(dec.records, g.capacity, g.mode.shared, TRUE)
            /\ same(HwChoose(g.cells, cursor, g.capacity, g.mode))
            /\ same(HwPrepared(g.cells, cursor, g.capacity, g.mode))
===========================================================================
