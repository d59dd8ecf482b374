--------------------------- MODULE Transaction_proofs ---------------------------
(* For all Control halves, messages, capacities and modes: the two observers of  *)
(* the data halves that a Flit owes agree (TlReceiver), and a group of fields is *)
(* sent whole, in order and without getting stuck (TlPartition).                 *)
(*                                                                               *)
(* Both rest on what the parser of a Control half returns: fields that lie in    *)
(* the half in order and do not overlap.  From this each field owes its data     *)
(* halves in pairs, which the queue of the sequencer keeps; and a run of fields  *)
(* and the run behind it are the run of both.                                    *)
EXTENDS TlReceiver, TlPartition, SequenceTheorems, TLAPS

-------------------------------------------------------------------------------
(* Recursive functions over a few places.  The definition of such a function   *)
(* chooses one that satisfies its equation; to speak about it one has to show  *)
(* that there is one.  Both recursions of this module look at earlier places   *)
(* only and at eight of them at most, so one can be put together place by      *)
(* place.                                                                      *)

\* What the parser of a Control half reads below sector e.
Reads(cells, parse, e) ==
  IF e = 0 THEN [status |-> "ok", records |-> <<>>]
  ELSE LET cell == cells[e - 1]
           start == e - Width(cell.kind)
           failed(why) == [status |-> why, records |-> <<>>]
       IN  CASE cell.kind \in {6, 7} -> failed("unresolved")
             [] cell.kind > 7 -> failed("bad")
             [] cell.kind < 6 /\ (start < 0 \/ start % Width(cell.kind) # 0) ->
                    failed("bad")
             [] OTHER ->
                    LET rest == parse[start]
                    IN  CASE cell.fault # "ok" -> failed(cell.fault)
                          [] cell.fault = "ok" /\ rest.status # "ok" -> rest
                          [] OTHER ->
                             [status |-> "ok",
                              records |-> IF cell.kind = 0 THEN rest.records
                                          ELSE Append(rest.records, FieldOf(start, cell))]

Parses(cells, g) == g = [e \in 0 .. 8 |-> Reads(cells, g, e)]
ParsesTo(cells, g, n) ==
  /\ g = [e \in 0 .. 8 |-> g[e]]
  /\ \A e \in 0 .. n : g[e] = Reads(cells, g, e)

\* A sector, as far as the properties look at it.
CellOK(cell) ==
  /\ cell.kind \in 0 .. 15 /\ cell.lane \in 0 .. Lanes - 1
  /\ cell.halves \in {0, 2, 4, 6, 8} /\ cell.be \in BOOLEAN
CellsOK(cells) == \A s \in Sectors : CellOK(cells[s])

\* A field is at least one sector wide, and no wider than what is left.
LEMMA FieldBelow ==
  ASSUME NEW e \in 1 .. 8, NEW kind \in 0 .. 15
  PROVE  /\ Width(kind) \in {1, 2, 4}
         /\ ~ (e - Width(kind) < 0) => e - Width(kind) \in 0 .. e - 1
<1>1. Width(kind) \in {1, 2, 4}
  BY DEF Width, Wide, Double
<1> QED  BY <1>1

\* It depends on the places below only.
LEMMA ReadsBelow ==
  ASSUME NEW cells, CellsOK(cells), NEW e \in 0 .. 8, NEW g, NEW h,
         \A k \in 0 .. e - 1 : g[k] = h[k]
  PROVE  Reads(cells, g, e) = Reads(cells, h, e)
<1>1. CASE e = 0
  BY <1>1 DEF Reads
<1>2. CASE e # 0
  <2> DEFINE kind == cells[e - 1].kind
             start == e - Width(kind)
  <2>1. e \in 1 .. 8 /\ e - 1 \in Sectors
    BY <1>2 DEF Sectors
  <2>2. kind \in 0 .. 15
    BY <2>1 DEF CellsOK, CellOK
  <2>3. ~ (start < 0) => start \in 0 .. e - 1
    BY <2>1, <2>2, FieldBelow
  <2>4. kind \notin {6, 7} /\ ~ (kind > 7) => kind < 6
    BY <2>2
  <2> HIDE DEF start, kind
  <2>5. CASE kind \in {6, 7} \/ kind > 7 \/ (kind < 6 /\ (start < 0 \/ start % Width(kind) # 0))
    BY <1>2, <2>5 DEF Reads, kind, start
  <2>6. CASE ~ (kind \in {6, 7} \/ kind > 7 \/ (kind < 6 /\ (start < 0 \/ start % Width(kind) # 0)))
    <3>1. g[start] = h[start]
      BY <2>3, <2>4, <2>6
    <3> QED  BY <1>2, <2>6, <3>1 DEF Reads, kind, start
  <2> QED  BY <2>5, <2>6
<1> QED  BY <1>1, <1>2

\* A parser that is right below sector n can be continued past it.
LEMMA ParsesFurther ==
  ASSUME NEW cells, CellsOK(cells), NEW n \in 0 .. 7,
         \E g : ParsesTo(cells, g, n)
  PROVE  \E g : ParsesTo(cells, g, n + 1)
<1>1. PICK g : ParsesTo(cells, g, n)
  OBVIOUS
<1> DEFINE h == [g EXCEPT ![n + 1] = Reads(cells, g, n + 1)]
<1>2. h = [e \in 0 .. 8 |-> h[e]] /\ \A k \in 0 .. 8 : k # n + 1 => h[k] = g[k]
  BY <1>1 DEF ParsesTo
<1>3. h[n + 1] = Reads(cells, g, n + 1)
  BY <1>1 DEF ParsesTo
<1> HIDE DEF h
<1>4. ASSUME NEW e \in 0 .. n + 1
      PROVE  h[e] = Reads(cells, h, e)
  <2>1. e \in 0 .. 8 /\ \A k \in 0 .. e - 1 : g[k] = h[k]
    BY <1>2
  <2>2. Reads(cells, g, e) = Reads(cells, h, e)
    BY <2>1, ReadsBelow
  <2>3. h[e] = Reads(cells, g, e)
    <3>1. CASE e = n + 1
      BY <3>1, <1>3
    <3>2. CASE e # n + 1
      <4>1. e \in 0 .. n /\ h[e] = g[e]
        BY <3>2, <2>1, <1>2
      <4> QED  BY <4>1, <1>1 DEF ParsesTo
    <3> QED  BY <3>1, <3>2
  <2> QED  BY <2>2, <2>3
<1> QED  BY <1>2, <1>4 DEF ParsesTo

\* The parser exists.
LEMMA ParserExists ==
  ASSUME NEW cells, CellsOK(cells)
  PROVE  \E g : Parses(cells, g) /\ Derive(cells) = g[8]
<1>0. \E g : ParsesTo(cells, g, 0)
  <2> DEFINE g == [e \in 0 .. 8 |-> [status |-> "ok", records |-> <<>>]]
  <2>1. ParsesTo(cells, g, 0)
    BY DEF ParsesTo, Reads
  <2> QED  BY <2>1
<1>1. \E g : ParsesTo(cells, g, 1)
  BY <1>0, ParsesFurther
<1>2. \E g : ParsesTo(cells, g, 2)
  BY <1>1, ParsesFurther
<1>3. \E g : ParsesTo(cells, g, 3)
  BY <1>2, ParsesFurther
<1>4. \E g : ParsesTo(cells, g, 4)
  BY <1>3, ParsesFurther
<1>5. \E g : ParsesTo(cells, g, 5)
  BY <1>4, ParsesFurther
<1>6. \E g : ParsesTo(cells, g, 6)
  BY <1>5, ParsesFurther
<1>7. \E g : ParsesTo(cells, g, 7)
  BY <1>6, ParsesFurther
<1>8. \E g : ParsesTo(cells, g, 8)
  BY <1>7, ParsesFurther
<1>9. \E g : g = [e \in 0 .. 8 |-> Reads(cells, g, e)]
  <2>1. PICK g : ParsesTo(cells, g, 8)
    BY <1>8
  <2>2. g = [e \in 0 .. 8 |-> Reads(cells, g, e)]
    BY <2>1 DEF ParsesTo
  <2> QED  BY <2>2
<1> DEFINE h == CHOOSE h : h = [e \in 0 .. 8 |-> Reads(cells, h, e)]
<1>10. h = [e \in 0 .. 8 |-> Reads(cells, h, e)]
  BY <1>9
<1>11. Derive(cells) = h[8]
  BY DEF Derive, Reads
<1> QED  BY <1>10, <1>11 DEF Parses

\* What a half that parses may hold.
Fields == [sector : Int, kind : 0 .. 15, lane : 0 .. Lanes - 1, halves : {0, 2, 4, 6, 8}, be : BOOLEAN]
\* Fields below sector n, from the bottom up, none of which overlaps another.
RecordsOK(records, n) ==
  /\ records \in Seq(Fields) /\ Len(records) <= n
  /\ \A i \in 1 .. Len(records) :
       records[i].sector >= 0 /\ records[i].sector + Width(records[i].kind) <= n
  /\ \A i, j \in 1 .. Len(records) :
       i < j => records[i].sector + Width(records[i].kind) <= records[j].sector

\* A field takes one, two or four sectors.
LEMMA WidthIs ==
  ASSUME NEW kind
  PROVE  Width(kind) \in {1, 2, 4}
BY DEF Width, Wide, Double

\* A field on top of others.
LEMMA OnTop ==
  ASSUME NEW n \in Nat, NEW q, RecordsOK(q, n), NEW f \in Fields, f.sector = n,
         NEW m \in Nat, m = n + Width(f.kind)
  PROVE  RecordsOK(q, m) /\ RecordsOK(Append(q, f), m)
<1> DEFINE r == Append(q, f)
           l == Len(q)
<1>1. q \in Seq(Fields) /\ l \in Nat /\ l <= n
  BY DEF RecordsOK
<1>2. /\ r \in Seq(Fields) /\ Len(r) = l + 1 /\ r[l + 1] = f
      /\ \A i \in 1 .. l : r[i] = q[i]
  BY <1>1
<1>3. Width(f.kind) \in {1, 2, 4} /\ n < m
  BY WidthIs
<1>4. /\ \A i \in 1 .. l : q[i] \in Fields /\ q[i].sector \in Int
                           /\ Width(q[i].kind) \in {1, 2, 4}
      /\ \A i \in 1 .. l : q[i].sector >= 0 /\ q[i].sector + Width(q[i].kind) <= n
      /\ \A i, j \in 1 .. l :
           i < j => q[i].sector + Width(q[i].kind) <= q[j].sector
  <2>1. \A i \in 1 .. l : q[i] \in Fields
    BY <1>1
  <2>2. \A i \in 1 .. l : q[i].sector \in Int
    BY <2>1 DEF Fields
  <2> QED  BY <2>1, <2>2, WidthIs DEF RecordsOK
<1> HIDE DEF r, l
<1>5. ASSUME NEW i \in 1 .. l + 1
      PROVE  /\ r[i].sector >= 0 /\ r[i].sector + Width(r[i].kind) <= m
             /\ i \in 1 .. l => r[i].sector + Width(r[i].kind) <= n
  <2>1. CASE i = l + 1
    BY <1>1, <1>2, <1>3, <2>1
  <2>2. CASE i \in 1 .. l
    <3>1. r[i] = q[i] /\ q[i].sector \in Int /\ Width(q[i].kind) \in Nat
          /\ q[i].sector >= 0 /\ q[i].sector + Width(q[i].kind) <= n
      BY <1>2, <1>4, <2>2
    <3> QED  BY <3>1, <1>3
  <2> QED  BY <1>1, <2>1, <2>2
<1>6. ASSUME NEW i \in 1 .. l + 1, NEW j \in 1 .. l + 1, i < j
      PROVE  r[i].sector + Width(r[i].kind) <= r[j].sector
  <2>1. i \in 1 .. l
    BY <1>1, <1>6
  <2>2. CASE j = l + 1
    BY <1>2, <1>5, <2>1, <2>2
  <2>3. CASE j \in 1 .. l
    BY <1>2, <1>4, <1>6, <2>1, <2>3
  <2> QED  BY <1>1, <2>2, <2>3
<1>7. l + 1 <= m /\ l <= m
  BY <1>1, <1>3
<1>8. RecordsOK(r, m)
  BY <1>2, <1>5, <1>6, <1>7 DEF RecordsOK
<1>9. RecordsOK(q, m)
  <2>1. \A i \in 1 .. l : q[i].sector >= 0 /\ q[i].sector + Width(q[i].kind) <= m
    BY <1>3, <1>4
  <2> QED  BY <1>1, <1>4, <1>7, <2>1 DEF RecordsOK, l
<1> QED  BY <1>8, <1>9 DEF r

\* If the parser is right below sector e, what it reads there is right too: a field
\* starts above everything that was read before it.
LEMMA ReadsFields ==
  ASSUME NEW cells, CellsOK(cells), NEW e \in 0 .. 8, NEW g,
         \A k \in 0 .. e - 1 : RecordsOK(g[k].records, k)
  PROVE  RecordsOK(Reads(cells, g, e).records, e)
<1>0. RecordsOK(<<>>, e)
  BY DEF RecordsOK
<1>1. CASE e = 0
  BY <1>0, <1>1 DEF Reads
<1>2. CASE e # 0
  <2> DEFINE cell == cells[e - 1]
             start == e - Width(cell.kind)
             rest == g[start].records
  <2>1. e \in 1 .. 8 /\ e - 1 \in Sectors
    BY <1>2 DEF Sectors
  <2>2. CellOK(cell) /\ cell.kind \in 0 .. 15
    BY <2>1 DEF CellsOK, CellOK
  <2>3. ~ (start < 0) => start \in 0 .. e - 1
    BY <2>1, <2>2, FieldBelow
  <2>4. start \in 0 .. e - 1 =>
          RecordsOK(rest, e) /\ RecordsOK(Append(rest, FieldOf(start, cell)), e)
    <3> SUFFICES ASSUME start \in 0 .. e - 1
                 PROVE  RecordsOK(rest, e) /\ RecordsOK(Append(rest, FieldOf(start, cell)), e)
      OBVIOUS
    <3>1. RecordsOK(rest, start)
      OBVIOUS
    <3>2. FieldOf(start, cell) \in Fields
      BY <2>2 DEF FieldOf, Fields, CellOK
    <3>3. FieldOf(start, cell).sector = start /\ FieldOf(start, cell).kind = cell.kind
      BY DEF FieldOf
    <3>4. e = start + Width(cell.kind) /\ start \in Nat /\ e \in Nat
      BY WidthIs
    <3> HIDE DEF rest, cell, start
    <3> QED  BY <3>1, <3>2, <3>3, <3>4, OnTop
  <2>5. cell.kind \notin {6, 7} /\ ~ (cell.kind > 7) => cell.kind < 6
    BY <2>2
  <2> HIDE DEF start, cell
  <2>6. CASE cell.kind \in {6, 7} \/ cell.kind > 7
             \/ (cell.kind < 6 /\ (start < 0 \/ start % Width(cell.kind) # 0))
    <3>1. Reads(cells, g, e).records = <<>>
      BY <1>2, <2>6 DEF Reads, cell, start
    <3> QED  BY <3>1, <1>0
  <2>7. CASE ~ (cell.kind \in {6, 7} \/ cell.kind > 7
                \/ (cell.kind < 6 /\ (start < 0 \/ start % Width(cell.kind) # 0)))
    <3>1. start \in 0 .. e - 1
      BY <2>3, <2>5, <2>7
    <3>2. Reads(cells, g, e).records \in {<<>>, rest, Append(rest, FieldOf(start, cell))}
      BY <1>2, <2>7 DEF Reads, cell, start
    <3> QED  BY <3>1, <3>2, <2>4, <1>0
  <2> QED  BY <2>6, <2>7
<1> QED  BY <1>1, <1>2

\* A Control half of any cells is read as fields that lie in it, in order, and do not
\* overlap (derive_control).
LEMMA DerivedFields ==
  ASSUME NEW cells, CellsOK(cells)
  PROVE  RecordsOK(Derive(cells).records, 8)
<1>1. PICK g : Parses(cells, g) /\ Derive(cells) = g[8]
  BY ParserExists
<1> DEFINE Q(n) == \A k \in 0 .. n - 1 : RecordsOK(g[k].records, k)
<1>2. \A n \in 0 .. 8 : Q(n) => Q(n + 1)
  <2> SUFFICES ASSUME NEW n \in 0 .. 8, Q(n)
               PROVE  Q(n + 1)
    OBVIOUS
  <2>1. g[n] = Reads(cells, g, n)
    BY <1>1 DEF Parses
  <2>2. RecordsOK(g[n].records, n)
    BY <2>1, ReadsFields
  <2> SUFFICES ASSUME NEW k \in 0 .. n
               PROVE  RecordsOK(g[k].records, k)
    OBVIOUS
  <2>3. k = n \/ k \in 0 .. n - 1
    OBVIOUS
  <2> QED  BY <2>2, <2>3
<1>3. Q(0)
  OBVIOUS
<1>4. Q(9) => RecordsOK(g[8].records, 8)
  OBVIOUS
<1> HIDE DEF Q
<1>5. Q(1) /\ Q(2) /\ Q(3)
  BY <1>2, <1>3
<1>6. Q(4) /\ Q(5) /\ Q(6)
  BY <1>2, <1>5
<1>7. Q(7) /\ Q(8) /\ Q(9)
  BY <1>2, <1>6
<1> QED  BY <1>1, <1>4, <1>7

-------------------------------------------------------------------------------
(* FlattenSeq of up to eight sequences.                                        *)

Joins(s, h) == h = [i \in 1 .. Len(s) |-> IF i = 1 THEN s[i] ELSE h[i - 1] \o s[i]]
JoinsTo(s, h, n) ==
  /\ h = [i \in 1 .. Len(s) |-> h[i]]
  /\ \A i \in 1 .. n : i <= Len(s) => h[i] = IF i = 1 THEN s[i] ELSE h[i - 1] \o s[i]

\* The same for what puts sequences one behind the other.
LEMMA JoinsFurther ==
  ASSUME NEW s, Len(s) \in Nat, NEW n \in Nat, \E h : JoinsTo(s, h, n)
  PROVE  \E h : JoinsTo(s, h, n + 1)
<1>1. PICK g : JoinsTo(s, g, n)
  OBVIOUS
<1> DEFINE h == [g EXCEPT ![n + 1] = IF n + 1 = 1 THEN s[n + 1] ELSE g[n] \o s[n + 1]]
<1>2. h = [i \in 1 .. Len(s) |-> h[i]] /\ \A i \in 1 .. Len(s) : i # n + 1 => h[i] = g[i]
  BY <1>1 DEF JoinsTo
<1>3. n + 1 <= Len(s) => h[n + 1] = IF n + 1 = 1 THEN s[n + 1] ELSE g[n] \o s[n + 1]
  BY <1>1 DEF JoinsTo
<1> HIDE DEF h
<1>4. ASSUME NEW i \in 1 .. n + 1, i <= Len(s)
      PROVE  h[i] = IF i = 1 THEN s[i] ELSE h[i - 1] \o s[i]
  <2>1. CASE i = n + 1
    <3>1. i # 1 => h[i - 1] = g[n]
      BY <1>2, <1>4, <2>1
    <3> QED  BY <1>3, <1>4, <2>1, <3>1
  <2>2. CASE i # n + 1
    <3>1. i \in 1 .. n /\ i \in 1 .. Len(s) /\ (i # 1 => i - 1 \in 1 .. Len(s) /\ i - 1 # n + 1)
      BY <1>4, <2>2
    <3>2. g[i] = IF i = 1 THEN s[i] ELSE g[i - 1] \o s[i]
      BY <1>1, <1>4, <3>1 DEF JoinsTo
    <3>3. h[i] = g[i] /\ (i # 1 => h[i - 1] = g[i - 1])
      BY <1>2, <2>2, <3>1
    <3> QED  BY <3>2, <3>3
  <2> QED  BY <2>1, <2>2
<1> QED  BY <1>2, <1>4 DEF JoinsTo

\* The community modules' FlattenSeq has the equation of its definition.
LEMMA FlattenExists ==
  ASSUME NEW s, Len(s) \in 1 .. 8
  PROVE  \E h : Joins(s, h) /\ FlattenSeq(s) = h[Len(s)]
<1>9. Len(s) # 0
  OBVIOUS
<1>0. \E h : JoinsTo(s, h, 0)
  <2> DEFINE h == [i \in 1 .. Len(s) |-> 0]
  <2>1. JoinsTo(s, h, 0)
    BY DEF JoinsTo
  <2> QED  BY <2>1
<1> DEFINE Q(n) == \E h : JoinsTo(s, h, n)
<1>1. \A n \in Nat : Q(n) => Q(n + 1)
  BY JoinsFurther
<1>2. Q(0)
  BY <1>0
<1>3. Q(8) => \E h : Joins(s, h)
  <2> SUFFICES ASSUME NEW h, JoinsTo(s, h, 8)
               PROVE  Joins(s, h)
    OBVIOUS
  <2> DEFINE n == Len(s)
  <2>0. n \in 1 .. 8
    OBVIOUS
  <2>1. \A i \in 1 .. n : i \in 1 .. 8 /\ i <= n
    <3> HIDE DEF n
    <3> QED  BY <2>0
  <2>2. \A i \in 1 .. Len(s) : h[i] = IF i = 1 THEN s[i] ELSE h[i - 1] \o s[i]
    BY <2>1 DEF JoinsTo
  <2> QED  BY <2>2 DEF JoinsTo, Joins
<1> HIDE DEF Q
<1>4. Q(1) /\ Q(2) /\ Q(3) /\ Q(4)
  BY <1>1, <1>2
<1>5. Q(5) /\ Q(6) /\ Q(7) /\ Q(8)
  BY <1>1, <1>4
<1>6. \E h : h = [i \in 1 .. Len(s) |-> IF i = 1 THEN s[i] ELSE h[i - 1] \o s[i]]
  BY <1>3, <1>5 DEF Joins
<1> DEFINE h == CHOOSE h : h = [i \in 1 .. Len(s) |-> IF i = 1 THEN s[i] ELSE h[i - 1] \o s[i]]
<1>7. h = [i \in 1 .. Len(s) |-> IF i = 1 THEN s[i] ELSE h[i - 1] \o s[i]]
  BY <1>6
<1>8. FlattenSeq(s) = h[Len(s)]
  BY <1>9, Zenon DEF FlattenSeq
<1> QED  BY <1>7, <1>8 DEF Joins

-------------------------------------------------------------------------------
(* Pending halves.  A pair of data halves is a first half, which reserves a    *)
(* credit, and a second half right behind it.                                  *)

Halfs == [kind : {"D", "B"}, slot : Int, reserve : BOOLEAN, data : BOOLEAN, cmd : BOOLEAN]
FirstHalf(t) == t.kind = "D" /\ t.reserve
SecondHalf(t) == t.kind = "D" /\ ~t.reserve

\* Every first half has its second half behind it, and nothing else has.
Paired(q) ==
  /\ q \in Seq(Halfs)
  /\ \A i \in 1 .. Len(q) - 1 : FirstHalf(q[i]) <=> SecondHalf(q[i + 1])
  /\ q # <<>> => ~FirstHalf(q[Len(q)])
\* The next half is the second one of its pair.
Between(q) == q # <<>> /\ SecondHalf(q[1])
Whole(q) == Paired(q) /\ ~Between(q)

\* An empty queue has no pair to tear.
LEMMA EmptyWhole == Whole(<<>>)
BY DEF Whole, Paired, Between

\* The tenure of a field consists of pairs, and a byte-enable half.
LEMMA FieldWhole ==
  ASSUME NEW f \in Fields
  PROVE  Whole(FieldTokens(f))
<1> DEFINE q == FieldTokens(f)
           h == f.halves
           n == TenureLength(f)
<1>1. h \in {0, 2, 4, 6, 8} /\ (n = h \/ n = h + 1) /\ n \in Nat
  BY DEF Fields, TenureLength
<1>2. DataSlot(f) \in Int
  BY LedgerAssumption DEF DataSlot, DataPool, Role, Fields
<1>3. /\ q \in [1 .. n -> Halfs]
      /\ \A i \in 1 .. n : /\ q[i].kind = (IF i <= h THEN "D" ELSE "B")
                           /\ q[i].reserve = (i <= h /\ i % 2 = 1)
  BY <1>1, <1>2 DEF FieldTokens, Halfs
<1> HIDE DEF q, h, n
<1>4. q \in Seq(Halfs) /\ Len(q) = n
  BY <1>1, <1>3
<1>5. \A i \in 1 .. n : /\ FirstHalf(q[i]) <=> (i <= h /\ i % 2 = 1)
                        /\ SecondHalf(q[i]) <=> (i <= h /\ i % 2 # 1)
  BY <1>1, <1>3 DEF FirstHalf, SecondHalf
<1>6. \A i \in 1 .. Len(q) - 1 : FirstHalf(q[i]) <=> SecondHalf(q[i + 1])
  <2> SUFFICES ASSUME NEW i \in 1 .. n - 1
               PROVE  FirstHalf(q[i]) <=> SecondHalf(q[i + 1])
    BY <1>4
  <2>1. i \in 1 .. n /\ i + 1 \in 1 .. n
    BY <1>1
  <2>2. (i <= h /\ i % 2 = 1) <=> (i + 1 <= h /\ (i + 1) % 2 # 1)
    BY <1>1
  <2> QED  BY <1>5, <2>1, <2>2
<1>7. q # <<>> => ~FirstHalf(q[Len(q)]) /\ ~SecondHalf(q[1])
  <2> SUFFICES ASSUME q # <<>>
               PROVE  ~FirstHalf(q[n]) /\ ~SecondHalf(q[1])
    BY <1>4
  <2>1. n \in 1 .. n /\ 1 \in 1 .. n
    BY <1>1, <1>4
  <2>2. ~ (n <= h /\ n % 2 = 1) /\ 1 % 2 = 1
    BY <1>1
  <2> QED  BY <1>5, <2>1, <2>2
<1> QED  BY <1>4, <1>6, <1>7 DEF Whole, Paired, Between, q

\* What is left of a queue without its head.
LEMMA TailOf ==
  ASSUME NEW q \in Seq(Halfs), q # <<>>
  PROVE  /\ Tail(q) \in Seq(Halfs) /\ Len(Tail(q)) = Len(q) - 1 /\ Len(q) \in Nat \ {0}
         /\ \A i \in 1 .. Len(q) - 1 : Tail(q)[i] = q[i + 1]
         /\ Head(q) = q[1] /\ (Tail(q) = <<>> <=> Len(q) = 1)
<1>1. /\ Tail(q) \in Seq(Halfs) /\ Len(Tail(q)) = Len(q) - 1
      /\ \A i \in 1 .. Len(Tail(q)) : Tail(q)[i] = q[i + 1]
  BY HeadTailProperties
<1>2. Len(q) \in Nat /\ Len(q) # 0
  BY EmptySeq
<1>3. Tail(q) = <<>> <=> Len(Tail(q)) = 0
  BY <1>1, EmptySeq
<1>4. Head(q) = q[1]
  OBVIOUS
<1> QED  BY <1>1, <1>2, <1>3, <1>4

\* Taking a half away.
LEMMA TailPaired ==
  ASSUME NEW q, Paired(q), q # <<>>
  PROVE  /\ Paired(Tail(q)) /\ Head(q) = q[1] /\ q[1] \in Halfs
         /\ Between(Tail(q)) <=> FirstHalf(q[1])
<1> DEFINE t == Tail(q)
           n == Len(q)
<1>1. /\ q \in Seq(Halfs) /\ t \in Seq(Halfs) /\ Len(t) = n - 1 /\ n \in Nat /\ n >= 1
      /\ \A i \in 1 .. n - 1 : t[i] = q[i + 1]
      /\ Head(q) = q[1] /\ (t = <<>> <=> n = 1)
  BY TailOf DEF Paired
<1>2. q[1] \in Halfs
  BY <1>1
<1>3. /\ \A i \in 1 .. n - 1 : FirstHalf(q[i]) <=> SecondHalf(q[i + 1])
      /\ ~FirstHalf(q[n])
  BY DEF Paired
<1> HIDE DEF t, n
<1>4. ASSUME NEW i \in 1 .. Len(t) - 1
      PROVE  FirstHalf(t[i]) <=> SecondHalf(t[i + 1])
  <2>1. i \in 1 .. n - 1 /\ i + 1 \in 1 .. n - 1
    BY <1>1
  <2>2. t[i] = q[i + 1] /\ t[i + 1] = q[(i + 1) + 1]
    BY <1>1, <2>1
  <2> QED  BY <1>3, <2>1, <2>2
<1>5. t # <<>> => ~FirstHalf(t[Len(t)])
  <2> SUFFICES ASSUME t # <<>>
               PROVE  ~FirstHalf(t[Len(t)])
    OBVIOUS
  <2>1. n - 1 \in 1 .. n - 1 /\ (n - 1) + 1 = n
    BY <1>1
  <2> QED  BY <1>1, <1>3, <2>1
<1>6. Paired(t)
  BY <1>1, <1>4, <1>5 DEF Paired
<1>7. Between(t) <=> FirstHalf(q[1])
  <2>1. CASE n = 1
    BY <2>1, <1>1, <1>3 DEF Between
  <2>2. CASE n # 1
    <3>1. 1 \in 1 .. n - 1 /\ t[1] = q[2] /\ t # <<>> /\ 1 + 1 = 2
      BY <1>1, <2>2
    <3>2. FirstHalf(q[1]) <=> SecondHalf(q[2])
      BY <1>3, <3>1
    <3> QED  BY <3>1, <3>2 DEF Between
  <2> QED  BY <2>1, <2>2
<1> QED  BY <1>1, <1>2, <1>6, <1>7 DEF t

\* Putting the tenure of a Control half behind what is pending.
LEMMA JoinedPaired ==
  ASSUME NEW p, Paired(p), NEW q, Whole(q)
  PROVE  /\ Paired(p \o q)
         /\ Between(p \o q) <=> Between(p)
<1> DEFINE r == p \o q
           m == Len(p)
           n == Len(q)
<1>1. /\ p \in Seq(Halfs) /\ q \in Seq(Halfs) /\ m \in Nat /\ n \in Nat
      /\ r \in Seq(Halfs) /\ Len(r) = m + n
      /\ \A i \in 1 .. m : r[i] = p[i]
      /\ \A i \in m + 1 .. m + n : r[i] = q[i - m]
      /\ (p = <<>> <=> m = 0) /\ (q = <<>> <=> n = 0) /\ (r = <<>> <=> m + n = 0)
  BY DEF Paired, Whole
<1>2. /\ \A i \in 1 .. m - 1 : FirstHalf(p[i]) <=> SecondHalf(p[i + 1])
      /\ m # 0 => ~FirstHalf(p[m])
      /\ \A i \in 1 .. n - 1 : FirstHalf(q[i]) <=> SecondHalf(q[i + 1])
      /\ n # 0 => ~FirstHalf(q[n]) /\ ~SecondHalf(q[1])
  BY <1>1 DEF Paired, Whole, Between
<1> HIDE DEF r, m, n
<1>3. ASSUME NEW i \in 1 .. Len(r) - 1
      PROVE  FirstHalf(r[i]) <=> SecondHalf(r[i + 1])
  <2>1. CASE i < m
    <3>1. i \in 1 .. m - 1 /\ i \in 1 .. m /\ i + 1 \in 1 .. m
      BY <1>1, <2>1
    <3> QED  BY <1>1, <1>2, <3>1
  <2>2. CASE i = m
    <3>1. i \in 1 .. m /\ m # 0 /\ n # 0 /\ i + 1 \in m + 1 .. m + n /\ (i + 1) - m = 1
      BY <1>1, <2>2
    <3>2. r[i] = p[m] /\ r[i + 1] = q[1]
      BY <1>1, <2>2, <3>1
    <3> QED  BY <1>2, <3>1, <3>2
  <2>3. CASE i > m
    <3>1. /\ i \in m + 1 .. m + n /\ i + 1 \in m + 1 .. m + n
          /\ i - m \in 1 .. n - 1 /\ (i + 1) - m = (i - m) + 1
      BY <1>1, <2>3
    <3>2. r[i] = q[i - m] /\ r[i + 1] = q[(i - m) + 1]
      BY <1>1, <3>1
    <3> QED  BY <1>2, <3>1, <3>2
  <2> QED  BY <1>1, <2>1, <2>2, <2>3
<1>4. r # <<>> => ~FirstHalf(r[Len(r)])
  <2>1. CASE n = 0
    <3>1. m # 0 => m \in 1 .. m /\ Len(r) = m
      BY <1>1, <2>1
    <3> QED  BY <1>1, <1>2, <2>1, <3>1
  <2>2. CASE n # 0
    <3>1. m + n \in m + 1 .. m + n /\ (m + n) - m = n
      BY <1>1, <2>2
    <3> QED  BY <1>1, <1>2, <2>2, <3>1
  <2> QED  BY <2>1, <2>2
<1>5. Between(r) <=> Between(p)
  <2>1. CASE m = 0
    <3>1. n # 0 => 1 \in m + 1 .. m + n /\ 1 - m = 1
      BY <1>1, <2>1
    <3>2. n # 0 => ~SecondHalf(r[1])
      BY <1>1, <1>2, <3>1
    <3> QED  BY <1>1, <2>1, <3>2 DEF Between
  <2>2. CASE m # 0
    <3>1. 1 \in 1 .. m /\ r # <<>> /\ p # <<>>
      BY <1>1, <2>2
    <3> QED  BY <1>1, <3>1 DEF Between
  <2> QED  BY <2>1, <2>2
<1> QED  BY <1>1, <1>3, <1>4, <1>5 DEF Paired, r

\* The tenure of a whole Control half.
LEMMA TokensWhole ==
  ASSUME NEW fields, RecordsOK(fields, 8)
  PROVE  Whole(Tokens(fields))
<1> DEFINE s == [i \in DOMAIN fields |-> FieldTokens(fields[i])]
<1>1. fields \in Seq(Fields) /\ Len(fields) \in 0 .. 8 /\ DOMAIN fields = 1 .. Len(fields)
  <2>1. fields \in Seq(Fields) /\ Len(fields) <= 8
    BY DEF RecordsOK
  <2>2. Len(fields) \in Nat /\ DOMAIN fields = 1 .. Len(fields)
    BY <2>1
  <2> DEFINE n == Len(fields)
  <2>3. n \in 0 .. 8
    <3>1. n \in Nat /\ n <= 8
      BY <2>1, <2>2
    <3> HIDE DEF n
    <3> QED  BY <3>1
  <2> QED  BY <2>1, <2>2, <2>3
<1>2. Len(s) = Len(fields) /\ (Len(s) = 0 => s = <<>>)
  BY <1>1
<1>3. \A i \in 1 .. Len(s) : Whole(s[i])
  BY <1>1, <1>2, FieldWhole
<1> HIDE DEF s
<1>4. CASE Len(s) = 0
  <2>1. FlattenSeq(s) = <<>>
    BY <1>2, <1>4 DEF FlattenSeq
  <2> QED  BY <2>1, EmptyWhole DEF Tokens, s
<1>5. CASE Len(s) # 0
  <2>1. Len(s) \in 1 .. 8
    <3>1. Len(s) \in 0 .. 8
      BY <1>1, <1>2
    <3> QED  BY <3>1, <1>5
  <2>2. PICK h : Joins(s, h) /\ FlattenSeq(s) = h[Len(s)]
    BY <2>1, FlattenExists
  <2> DEFINE Q(n) == n <= Len(s) => Whole(h[n])
  <2>3. Q(1)
    BY <2>1, <2>2, <1>3 DEF Joins
  <2>4. \A n \in 1 .. 7 : Q(n) => Q(n + 1)
    <3> SUFFICES ASSUME NEW n \in 1 .. 7, Q(n), n + 1 <= Len(s)
                 PROVE  Whole(h[n + 1])
      OBVIOUS
    <3>1. n + 1 \in 1 .. Len(s) /\ n + 1 # 1 /\ (n + 1) - 1 = n /\ n <= Len(s)
      BY <2>1
    <3>2. h[n + 1] = h[n] \o s[n + 1]
      BY <2>2, <3>1 DEF Joins
    <3>3. Whole(h[n]) /\ Whole(s[n + 1])
      BY <3>1, <1>3
    <3> QED  BY <3>2, <3>3, JoinedPaired DEF Whole
  <2> HIDE DEF Q
  <2>5. Q(1) /\ Q(2) /\ Q(3) /\ Q(4)
    BY <2>3, <2>4
  <2>6. Q(5) /\ Q(6) /\ Q(7) /\ Q(8)
    BY <2>4, <2>5
  <2>7. \A n \in 1 .. 8 : Q(n)
    BY <2>5, <2>6
  <2>8. Whole(FlattenSeq(s))
    <3> DEFINE n == Len(s)
    <3>1. n \in 1 .. 8 /\ n \in Nat
      BY <2>1
    <3>2. n <= n => Whole(h[n])
      BY <2>7, <3>1 DEF Q
    <3>3. FlattenSeq(s) = h[n]
      BY <2>2
    <3> HIDE DEF n
    <3> QED  BY <3>1, <3>2, <3>3
  <2> QED  BY <2>8 DEF Tokens, s
<1> QED  BY <1>4, <1>5

-------------------------------------------------------------------------------
(* A Flit and the halves that are owed.                                        *)

DataHalf(class) == class \in {"DATA", "POISON"}
\* What a half of this class does to an observer who counts data halves by twos.
Turn(open, class) == IF DataHalf(class) THEN ~open ELSE open

\* A half that is taken goes off the front of the queue, and a data half is
\* what turns a first half into a second one.
LEMMA Consumed ==
  ASSUME NEW q, Paired(q), NEW message, NEW expected,
         expected \in {"DATA", "BYTE_ENABLE"} => q # <<>> /\ expected = Owed(q),
         expected \in {"DATA", "BYTE_ENABLE", "AUTH", "NOP"},
         NEW c, c = Consume(q, message, expected)
  PROVE  /\ c.queue = q \/ (q # <<>> /\ c.queue = Tail(q))
         /\ Paired(c.queue)
         /\ c.ok => (Between(c.queue) <=> Turn(Between(q), c.class))
<1> DEFINE data == expected \in {"DATA", "BYTE_ENABLE"}
<1>1. data => /\ q # <<>> /\ Paired(Tail(q)) /\ Head(q) = q[1] /\ q[1] \in Halfs
              /\ Between(Tail(q)) <=> FirstHalf(q[1])
  BY TailPaired
<1>2. data => /\ expected = "DATA" <=> q[1].kind = "D"
              /\ expected = "DATA" => (FirstHalf(q[1]) <=> ~SecondHalf(q[1]))
              /\ expected # "DATA" => ~FirstHalf(q[1]) /\ ~SecondHalf(q[1])
  BY <1>1 DEF Owed, FirstHalf, SecondHalf, Halfs
<1>3. data => (Between(q) <=> SecondHalf(q[1]))
  BY <1>1 DEF Between
<1>4. CASE expected = "AUTH"
  <2>1. c.queue = q /\ c.class = "AUTH"
    BY <1>4 DEF Consume
  <2> QED  BY <2>1 DEF Turn, DataHalf
<1>5. CASE expected # "AUTH" /\ message = "poison"
  <2>1. c.ok = (expected = "DATA") /\ c.class = "POISON" /\ c.queue = AfterPoison(q)
    BY <1>5 DEF Consume
  <2>2. CASE q = <<>>
    BY <2>1, <2>2 DEF AfterPoison
  <2>3. CASE q # <<>>
    <3>1. c.queue = Tail(q) /\ Paired(Tail(q)) /\ (Between(Tail(q)) <=> FirstHalf(q[1]))
      BY <2>1, <2>3, TailPaired DEF AfterPoison
    <3>2. Turn(Between(q), c.class) = ~Between(q)
      BY <2>1 DEF Turn, DataHalf
    <3>3. c.ok => data /\ expected = "DATA"
      BY <2>1
    <3> QED  BY <2>3, <3>1, <3>2, <3>3, <1>2, <1>3
  <2> QED  BY <2>2, <2>3
<1>6. CASE expected # "AUTH" /\ message # "poison" /\ message # NoMessage
  <2>1. c.queue = q /\ c.class = "MESSAGE"
    BY <1>6 DEF Consume
  <2> QED  BY <2>1 DEF Turn, DataHalf
<1>7. CASE expected # "AUTH" /\ message # "poison" /\ message = NoMessage
  <2>1. c.class = expected /\ c.queue = IF data THEN Tail(q) ELSE q
    BY <1>7 DEF Consume
  <2>2. CASE data
    <3>1. c.queue = Tail(q) /\ q # <<>>
      BY <2>1, <2>2, <1>1
    <3>2. Turn(Between(q), c.class) = IF expected = "DATA" THEN ~Between(q) ELSE Between(q)
      BY <2>1, <2>2 DEF Turn, DataHalf
    <3> QED  BY <2>2, <3>1, <3>2, <1>1, <1>2, <1>3
  <2>3. CASE ~data
    <3>1. c.queue = q /\ c.class \in {"AUTH", "NOP"}
      BY <2>1, <2>3
    <3> QED  BY <3>1 DEF Turn, DataHalf
  <2> QED  BY <2>2, <2>3
<1> QED  BY <1>4, <1>5, <1>6, <1>7

\* A Flit, of whichever sort.
Follows(seq, pending) ==
  /\ Paired(seq.pending)
  /\ Between(seq.pending)
       <=> Turn(Turn(Between(pending), seq.classes[1]), seq.classes[2])

\* A half is owed for data or for byte enables.
LEMMA OwedIsData ==
  ASSUME NEW q
  PROVE  Owed(q) \in {"DATA", "BYTE_ENABLE"}
BY DEF Owed

\* A Flit with at most one half owed before it: its Control half, and the queue of
\* what its fields owe.
LEMMA SlotFollows ==
  ASSUME NEW on, NEW pending, Paired(pending), Len(pending) <= 1, NEW flit,
         NEW fields, RecordsOK(fields, 8),
         NEW seq, seq = SlotStep(on, pending, flit, fields), seq.ok
  PROVE  Follows(seq, pending)
<1> DEFINE trailing == pending # <<>>
           control == flit.msg[1] = NoMessage
           queue == IF control THEN pending \o Tokens(fields) ELSE pending
           expected == CASE trailing -> Owed(queue)
                         [] ~trailing /\ control /\ on /\ fields # <<>> -> "AUTH"
                         [] ~trailing /\ ~(control /\ on /\ fields # <<>>)
                               /\ control /\ queue # <<>> -> Owed(queue)
                         [] OTHER -> "NOP"
           upper == Consume(queue, flit.msg[2], expected)
<1>1. /\ seq.ok => upper.ok
      /\ seq.classes = <<IF control THEN "CONTROL" ELSE "MESSAGE", upper.class>>
      /\ seq.pending = upper.queue
  BY DEF SlotStep
<1>2. Whole(Tokens(fields))
  BY TokensWhole
<1>3. Paired(queue) /\ (Between(queue) <=> Between(pending))
  BY <1>2, JoinedPaired
<1>4. trailing => queue # <<>>
  <2> SUFFICES ASSUME trailing, control
               PROVE  pending \o Tokens(fields) # <<>>
    OBVIOUS
  <2>1. pending \in Seq(Halfs) /\ Tokens(fields) \in Seq(Halfs) /\ Len(pending) # 0
    BY <1>2, EmptySeq DEF Paired, Whole
  <2>2. Len(pending \o Tokens(fields)) = Len(pending) + Len(Tokens(fields))
        /\ Len(pending) \in Nat /\ Len(Tokens(fields)) \in Nat
    BY <2>1
  <2> QED  BY <2>1, <2>2, EmptySeq
<1>5. expected \in {"AUTH", "NOP"} \/ (queue # <<>> /\ expected = Owed(queue))
  BY <1>4
<1> HIDE DEF queue, expected, trailing
<1>6. /\ expected \in {"DATA", "BYTE_ENABLE"} => queue # <<>> /\ expected = Owed(queue)
      /\ expected \in {"DATA", "BYTE_ENABLE", "AUTH", "NOP"}
  BY <1>5, OwedIsData
<1>7. Paired(upper.queue) /\ (Between(upper.queue) <=> Turn(Between(queue), upper.class))
  BY <1>1, <1>3, <1>6, Consumed
<1>8. Turn(Between(pending), seq.classes[1]) = Between(pending)
  BY <1>1 DEF Turn, DataHalf
<1>9. seq.classes[2] = upper.class
  BY <1>1
<1> HIDE DEF upper
<1> QED  BY <1>1, <1>3, <1>7, <1>8, <1>9 DEF Follows, Turn

\* A Flit of two data halves.
LEMMA DataFollows ==
  ASSUME NEW pending, Paired(pending), ~ (Len(pending) <= 1), NEW flit,
         NEW seq, seq = DataStep(pending, flit), seq.ok
  PROVE  Follows(seq, pending)
<1> DEFINE lower == Consume(pending, flit.msg[1], Owed(pending))
           upper == Consume(lower.queue, flit.msg[2], Owed(lower.queue))
<1>1. /\ lower.ok /\ upper.ok /\ seq.pending = upper.queue
      /\ seq.classes[1] = lower.class /\ seq.classes[2] = upper.class
  BY DEF DataStep
<1>2. pending \in Seq(Halfs) /\ Len(pending) \in Nat /\ Len(pending) > 1 /\ pending # <<>>
  BY EmptySeq DEF Paired
<1>3. /\ lower.queue = pending \/ lower.queue = Tail(pending)
      /\ Paired(lower.queue)
      /\ Between(lower.queue) <=> Turn(Between(pending), lower.class)
  BY <1>1, <1>2, OwedIsData, Consumed
<1>4. Tail(pending) # <<>>
  <2>1. Tail(pending) = <<>> <=> Len(pending) = 1
    BY <1>2, TailOf
  <2> DEFINE n == Len(pending)
  <2>2. n \in Nat /\ n > 1
    BY <1>2
  <2> HIDE DEF n
  <2>3. n # 1
    BY <2>2
  <2> QED  BY <2>1, <2>3 DEF n
<1> HIDE DEF lower
<1>5. lower.queue # <<>>
  BY <1>2, <1>3, <1>4
<1>6. /\ Paired(upper.queue)
      /\ Between(upper.queue) <=> Turn(Between(lower.queue), upper.class)
  BY <1>1, <1>3, <1>5, OwedIsData, Consumed
<1> HIDE DEF upper
<1> QED  BY <1>1, <1>3, <1>6 DEF Follows, Turn

\* Any Flit that the sequencer accepts (tl_sequence.py).
LEMMA SequenceFollows ==
  ASSUME NEW on, NEW pending, Paired(pending), NEW flit, CellsOK(flit.cells),
         NEW seq, seq = SequenceStep(on, pending, flit), seq.ok
  PROVE  Follows(seq, pending)
<1> DEFINE fields == FieldsOf(pending, flit)
<1>1. RecordsOK(fields, 8)
  <2>1. RecordsOK(<<>>, 8)
    BY DEF RecordsOK
  <2> QED  BY <2>1, DerivedFields DEF FieldsOf
<1>2. seq = IF Len(pending) <= 1 THEN SlotStep(on, pending, flit, fields)
                                 ELSE DataStep(pending, flit)
  BY DEF SequenceStep
<1> HIDE DEF fields
<1>3. CASE Len(pending) <= 1
  <2>1. seq = SlotStep(on, pending, flit, fields)
    BY <1>2, <1>3
  <2> QED  BY <2>1, <1>1, <1>3, SlotFollows
<1>4. CASE ~ (Len(pending) <= 1)
  <2>1. seq = DataStep(pending, flit)
    BY <1>2, <1>4
  <2> QED  BY <2>1, <1>4, DataFollows
<1> QED  BY <1>3, <1>4

\* The monitor counts every data half, poisoned or not.
LEMMA ContentTurns ==
  ASSUME NEW c, c.open \in BOOLEAN, NEW classes, NEW used, NEW tags
  PROVE  LET after == ContentStep(c, classes, used, tags).open
         IN  after \in BOOLEAN /\ (after <=> Turn(Turn(c.open, classes[1]), classes[2]))
<1> DEFINE start == [open |-> c.open, poison |-> c.poison, bad |-> FALSE]
           first == ContentHalf(start, classes[1], 0, tags)
<1>1. first.open \in BOOLEAN /\ (first.open <=> Turn(c.open, classes[1]))
  BY DEF ContentHalf, Turn, DataHalf
<1>2. ContentStep(c, classes, used, tags).open = ContentHalf(first, classes[2], used, tags).open
  BY DEF ContentStep
<1> HIDE DEF first
<1>3. LET after == ContentHalf(first, classes[2], used, tags).open
      IN  after \in BOOLEAN /\ (after <=> Turn(first.open, classes[2]))
  BY <1>1 DEF ContentHalf, Turn, DataHalf
<1> QED  BY <1>1, <1>2, <1>3 DEF Turn

\* One direction of one end.
FlowOK(flow) ==
  /\ Paired(flow.pending)
  /\ flow.content.open \in BOOLEAN
  /\ flow.content.open <=> Between(flow.pending)

\* Nothing is owed at first, and the monitor waits for a first half.
LEMMA NewFlowOK == FlowOK(NewFlow)
BY EmptyWhole DEF FlowOK, NewFlow, NewContent, Whole

\* A Flit keeps monitor and sequencer together, whether it is accepted or rejected.
LEMMA FlowKeepsOK ==
  ASSUME NEW on, NEW flow, FlowOK(flow), NEW flit, CellsOK(flit.cells)
  PROVE  FlowOK(FlowStep(on, flow, flit).flow)
<1> DEFINE fields == FieldsOf(flow.pending, flit)
           seq == SequenceStep(on, flow.pending, flit)
           content == ContentStep(flow.content, seq.classes, flit.used, Len(fields))
           rq == RequestsIn(fields)
           rs == ResponsesIn(fields)
           ok == seq.ok /\ BudgetFits(flow.budget, rq, rs) /\ ~content.bad
           next == FlowStep(on, flow, flit).flow
<1>1. next = IF ok THEN [pending |-> seq.pending,
                         content |-> [open |-> content.open, poison |-> content.poison],
                         budget |-> BudgetAfter(flow.budget, rq, rs)]
                   ELSE flow
  BY DEF FlowStep
<1>2. seq.ok => Follows(seq, flow.pending)
  BY SequenceFollows DEF FlowOK
<1>3. content.open \in BOOLEAN
      /\ (content.open <=> Turn(Turn(flow.content.open, seq.classes[1]), seq.classes[2]))
  BY ContentTurns DEF FlowOK
<1> SUFFICES FlowOK(next)
  OBVIOUS
<1> HIDE DEF seq, content, rq, rs, next, fields, ok
<1>4. CASE ~ok
  <2>1. next = flow
    BY <1>1, <1>4
  <2> QED  BY <2>1
<1>5. CASE ok
  <2>1. /\ next.pending = seq.pending
        /\ next.content.open = content.open
    BY <1>1, <1>5
  <2>2. Follows(seq, flow.pending)
    BY <1>2, <1>5 DEF ok
  <2>3. /\ Turn(Between(flow.pending), seq.classes[1])
             <=> Turn(flow.content.open, seq.classes[1])
    BY DEF Turn, FlowOK
  <2>4. /\ Turn(Turn(Between(flow.pending), seq.classes[1]), seq.classes[2])
             <=> Turn(Turn(flow.content.open, seq.classes[1]), seq.classes[2])
    BY <2>3 DEF Turn
  <2> QED  BY <2>1, <2>2, <2>4, <1>3 DEF Follows, FlowOK
<1> QED  BY <1>4, <1>5

\* An edge of an end moves the flow by a Flit or not at all.
LEMMA IntegratedMoves ==
  ASSUME NEW end, NEW in
  PROVE  Integrated(end, in).end.flow \in {end.flow, FlowStep(in.auth, end.flow, in.flit).flow}
BY DEF Integrated

\* What is kept says in particular that the two agree.
LEMMA PairsMeanInStep ==
  ASSUME FlowOK(rx.flow)
  PROVE  PairMonitorInStep
<1>1. rx.flow.pending # <<>> => /\ Head(rx.flow.pending) = rx.flow.pending[1]
  BY TailPaired DEF FlowOK
<1> QED  BY <1>1 DEF FlowOK, Between, SecondHalf, PairMonitorInStep

\* The content monitor (tl_content.py) and the sequencer (tl_sequence.py) keep their
\* state apart; whatever Flits a peer sends, legal or not, and whatever is rejected
\* of them, they agree on whether a data pair is open.
THEOREM MonitorsAgree == RxSpec => []PairMonitorInStep
<1> DEFINE Inv == FlowOK(rx.flow)
<1>1. RxInit => Inv
  BY NewFlowOK DEF RxInit, NewEnd
<1>2. Inv /\ [RxNext]_rxVars => Inv'
  <2> SUFFICES ASSUME Inv, [RxNext]_rxVars
               PROVE  Inv'
    OBVIOUS
  <2>1. ASSUME NEW flit \in Flits, NEW receive, NEW send, NEW cost,
               RxEdge(flit, receive, send, cost)
        PROVE  Inv'
    <3> DEFINE in == [auth |-> auth, flit |-> flit, receive |-> receive, send |-> send,
                      demands |-> cost]
    <3>1. rx' = Integrated(rx, in).end
      BY <2>1 DEF RxEdge
    <3>2. CellsOK(flit.cells)
      BY HalvesAssumption DEF Flits, CellsOK, CellOK, Cells
    <3>3. rx'.flow \in {rx.flow, FlowStep(auth, rx.flow, flit).flow}
      BY <3>1, IntegratedMoves
    <3> QED  BY <3>2, <3>3, FlowKeepsOK
  <2>2. CASE RxReceive
    BY <2>1, <2>2 DEF RxReceive
  <2>3. CASE RxSendOnly
    BY <2>1, <2>3 DEF RxSendOnly
  <2>4. CASE UNCHANGED rxVars
    BY <2>4 DEF rxVars
  <2> QED  BY <2>2, <2>3, <2>4 DEF RxNext
<1>3. Inv => PairMonitorInStep
  BY PairsMeanInStep
<1> QED  BY <1>1, <1>2, <1>3, PTL DEF RxSpec

-------------------------------------------------------------------------------
(* Runs of fields.                                                             *)

\* Induction up to the number of sectors.
LEMMA UpToEight ==
  ASSUME NEW S, 0 \in S, \A n \in 0 .. 7 : n \in S => n + 1 \in S
  PROVE  \A n \in 0 .. 8 : n \in S
<1>1. 1 \in S /\ 2 \in S /\ 3 \in S /\ 4 \in S
  OBVIOUS
<1>2. 5 \in S /\ 6 \in S /\ 7 \in S /\ 8 \in S
  BY <1>1
<1> QED  BY <1>1, <1>2

Taken(r, a, b) == a <= r.sector /\ r.sector < b
TakenNext(records, g, a, b, n) ==
  IF n = 0 THEN <<>>
  ELSE IF Taken(records[n], a, b) THEN Append(g[n - 1], records[n]) ELSE g[n - 1]
Takes(records, g, a, b) == g = [n \in 0 .. Len(records) |-> TakenNext(records, g, a, b, n)]

TakesTo(records, g, a, b, n) ==
  /\ g = [k \in 0 .. 8 |-> g[k]]
  /\ \A k \in 0 .. n : g[k] = TakenNext(records, g, a, b, k)

\* A run that is right up to field n can be continued.
LEMMA TakesFurther ==
  ASSUME NEW records, NEW a, NEW b, NEW n \in 0 .. 7,
         \E g : TakesTo(records, g, a, b, n)
  PROVE  \E h : TakesTo(records, h, a, b, n + 1)
<1>1. PICK g : TakesTo(records, g, a, b, n)
  OBVIOUS
<1> DEFINE h == [k \in 0 .. 8 |-> IF k = n + 1 THEN TakenNext(records, g, a, b, n + 1) ELSE g[k]]
<1>2. h = [k \in 0 .. 8 |-> h[k]]
  OBVIOUS
<1>3. h[n + 1] = TakenNext(records, g, a, b, n + 1) /\ \A k \in 0 .. n : h[k] = g[k]
  OBVIOUS
<1> HIDE DEF h
<1>4. ASSUME NEW k \in 0 .. n + 1
      PROVE  h[k] = TakenNext(records, h, a, b, k)
  <2>1. k # 0 => k - 1 \in 0 .. n /\ h[k - 1] = g[k - 1]
    BY <1>3
  <2>2. TakenNext(records, h, a, b, k) = TakenNext(records, g, a, b, k)
    BY <2>1 DEF TakenNext
  <2>3. k = n + 1 \/ k \in 0 .. n
    OBVIOUS
  <2> QED  BY <1>1, <1>3, <2>2, <2>3 DEF TakesTo
<1> QED  BY <1>2, <1>4 DEF TakesTo

\* RunFrom has the equation of its definition.
LEMMA RunExists ==
  ASSUME NEW records, Len(records) \in 0 .. 8, NEW a, NEW b
  PROVE  \E g : /\ RunFrom(records, a, b) = g[Len(records)]
                /\ \A n \in 0 .. Len(records) : g[n] = TakenNext(records, g, a, b, n)
<1> DEFINE P(n) == \E h : TakesTo(records, h, a, b, n)
           S == {n \in 0 .. 8 : P(n)}
           l == Len(records)
<1>1. P(0)
  <2> DEFINE h == [k \in 0 .. 8 |-> <<>>]
  <2>1. TakesTo(records, h, a, b, 0)
    BY DEF TakesTo, TakenNext
  <2> QED  BY <2>1
<1>2. \A n \in 0 .. 7 : P(n) => P(n + 1)
  BY TakesFurther
<1>3. P(8)
  <2> HIDE DEF P
  <2>1. 0 \in S /\ \A n \in 0 .. 7 : n \in S => n + 1 \in S
    BY <1>1, <1>2
  <2> HIDE DEF S
  <2>2. 8 \in S
    BY <2>1, UpToEight
  <2> QED  BY <2>2 DEF S
<1>4. PICK h : \A k \in 0 .. 8 : h[k] = TakenNext(records, h, a, b, k)
  BY <1>3 DEF TakesTo
<1> DEFINE f == [k \in 0 .. l |-> h[k]]
<1>5. l \in 0 .. 8
  OBVIOUS
<1> HIDE DEF l
<1>6. ASSUME NEW k \in 0 .. l
      PROVE  f[k] = TakenNext(records, f, a, b, k)
  <2>1. k \in 0 .. 8 /\ f[k] = h[k] /\ (k # 0 => k - 1 \in 0 .. l /\ f[k - 1] = h[k - 1])
    BY <1>5
  <2> HIDE DEF f
  <2>2. TakenNext(records, f, a, b, k) = TakenNext(records, h, a, b, k)
    BY <2>1 DEF TakenNext
  <2> QED  BY <1>4, <2>1, <2>2
<1>7. f = [k \in 0 .. l |-> TakenNext(records, f, a, b, k)]
  <2>1. f = [k \in 0 .. l |-> f[k]]
    OBVIOUS
  <2> HIDE DEF f
  <2> QED  BY <1>6, <2>1
<1>8. \E g : Takes(records, g, a, b)
  BY <1>7 DEF Takes, l
<1> DEFINE g == CHOOSE g : Takes(records, g, a, b)
<1>9. Takes(records, g, a, b)
  BY <1>8
<1>10. RunFrom(records, a, b) = g[l]
  BY DEF RunFrom, Takes, TakenNext, Taken, l
<1> HIDE DEF g
<1>11. \A n \in 0 .. l : g[n] = TakenNext(records, g, a, b, n)
  BY <1>9 DEF Takes, l
<1> QED  BY <1>10, <1>11 DEF l

\* What a run consists of, one field after the other.
RunOf(records, a, b, g) ==
  /\ g[0] = <<>>
  /\ \A n \in 1 .. Len(records) :
       g[n] = IF Taken(records[n], a, b) THEN Append(g[n - 1], records[n]) ELSE g[n - 1]
  /\ \A n \in 0 .. Len(records) : g[n] \in Seq(Fields)

\* A Control half holds eight fields at most.
LEMMA LengthOf ==
  ASSUME NEW records, RecordsOK(records, 8)
  PROVE  /\ records \in Seq(Fields) /\ Len(records) \in 0 .. 8
         /\ \A n \in 1 .. Len(records) :
              records[n] \in Fields /\ records[n].sector \in Nat
<1> DEFINE l == Len(records)
<1>1. records \in Seq(Fields) /\ l \in Nat /\ l <= 8
  BY DEF RecordsOK
<1>2. \A n \in 1 .. l : records[n] \in Fields
  BY <1>1
<1>3. \A n \in 1 .. l : records[n].sector \in Nat
  <2>1. \A n \in 1 .. l : records[n].sector \in Int /\ records[n].sector >= 0
    BY <1>2 DEF RecordsOK, Fields
  <2> QED  BY <2>1
<1> HIDE DEF l
<1>4. l \in 0 .. 8
  BY <1>1
<1> QED  BY <1>1, <1>2, <1>3, <1>4 DEF l

\* What RunFrom consists of, field by field.
LEMMA RunIs ==
  ASSUME NEW records, RecordsOK(records, 8), NEW a, NEW b
  PROVE  \E g : RunFrom(records, a, b) = g[Len(records)] /\ RunOf(records, a, b, g)
<1> DEFINE l == Len(records)
<1>1. /\ l \in 0 .. 8
      /\ \A n \in 1 .. l : records[n] \in Fields
  BY LengthOf
<1>2. PICK g : /\ RunFrom(records, a, b) = g[l]
               /\ \A n \in 0 .. l : g[n] = TakenNext(records, g, a, b, n)
  BY <1>1, RunExists
<1> HIDE DEF l
<1>3. g[0] = <<>>
  BY <1>1, <1>2 DEF TakenNext
<1>4. \A n \in 1 .. l : g[n] = IF Taken(records[n], a, b) THEN Append(g[n - 1], records[n])
                                                        ELSE g[n - 1]
  <2> SUFFICES ASSUME NEW n \in 1 .. l
               PROVE  g[n] = IF Taken(records[n], a, b) THEN Append(g[n - 1], records[n])
                                                        ELSE g[n - 1]
    OBVIOUS
  <2>1. n \in 0 .. l /\ n # 0
    BY <1>1
  <2> QED  BY <1>2, <2>1 DEF TakenNext
<1>5. \A n \in 0 .. l : g[n] \in Seq(Fields)
  <2> DEFINE P(n) == n <= l => g[n] \in Seq(Fields)
             S == {n \in 0 .. 8 : P(n)}
  <2>1. 0 \in S
    <3>1. <<>> \in Seq(Fields)
      OBVIOUS
    <3>2. P(0)
      BY <1>3, <3>1
    <3> HIDE DEF P
    <3> QED  BY <3>2
  <2>2. ASSUME NEW n \in 0 .. 7, n \in S
        PROVE  n + 1 \in S
    <3> SUFFICES ASSUME n + 1 <= l
                 PROVE  g[n + 1] \in Seq(Fields)
      OBVIOUS
    <3>1. n + 1 \in 1 .. l /\ (n + 1) - 1 = n /\ n <= l
      BY <1>1
    <3>2. g[n] \in Seq(Fields) /\ records[n + 1] \in Fields
      BY <2>2, <3>1, <1>1
    <3>3. Append(g[n], records[n + 1]) \in Seq(Fields)
      BY <3>2, AppendProperties
    <3>4. g[n + 1] \in {g[n], Append(g[n], records[n + 1])}
      BY <1>4, <3>1
    <3> QED  BY <3>2, <3>3, <3>4
  <2> HIDE DEF S
  <2>3. \A n \in 0 .. 7 : n \in S => n + 1 \in S
    BY <2>2
  <2>4. \A n \in 0 .. 8 : n \in S
    BY <2>1, <2>3, UpToEight
  <2>5. \A n \in 0 .. 8 : n <= l => g[n] \in Seq(Fields)
    BY <2>4 DEF S
  <2>6. \A n \in 0 .. l : n \in 0 .. 8 /\ n <= l
    <3>1. l \in 0 .. 8
      BY <1>1
    <3> HIDE DEF l
    <3> QED  BY <3>1
  <2> QED  BY <2>5, <2>6
<1> QED  BY <1>2, <1>3, <1>4, <1>5 DEF RunOf, l

\* A run is a sequence of fields.
LEMMA RunTyped ==
  ASSUME NEW records, RecordsOK(records, 8), NEW a, NEW b
  PROVE  RunFrom(records, a, b) \in Seq(Fields)
<1> DEFINE l == Len(records)
<1>1. PICK g : RunFrom(records, a, b) = g[l] /\ RunOf(records, a, b, g)
  BY RunIs
<1>2. l \in 0 .. 8
  BY LengthOf
<1> HIDE DEF l
<1>3. l \in 0 .. l
  BY <1>2
<1> QED  BY <1>1, <1>3 DEF RunOf, l

\* A run has no field where no field starts.
LEMMA RunEmpty ==
  ASSUME NEW records, RecordsOK(records, 8), NEW a, NEW b,
         \A n \in 1 .. Len(records) : ~Taken(records[n], a, b)
  PROVE  RunFrom(records, a, b) = <<>>
<1> DEFINE l == Len(records)
<1>1. PICK g : RunFrom(records, a, b) = g[l] /\ RunOf(records, a, b, g)
  BY RunIs
<1>2. l \in 0 .. 8
  BY LengthOf
<1>3. /\ g[0] = <<>>
      /\ \A n \in 1 .. l : g[n] = g[n - 1]
  BY <1>1 DEF RunOf
<1> HIDE DEF l
<1> DEFINE S == {n \in 0 .. 8 : n <= l => g[n] = <<>>}
<1>4. 0 \in S
  BY <1>3
<1>5. ASSUME NEW n \in 0 .. 7, n \in S
      PROVE  n + 1 \in S
  <2> SUFFICES ASSUME n + 1 <= l
               PROVE  g[n + 1] = <<>>
    OBVIOUS
  <2>1. n + 1 \in 1 .. l /\ (n + 1) - 1 = n /\ n <= l
    BY <1>2
  <2> QED  BY <1>3, <1>5, <2>1
<1> HIDE DEF S
<1>6. \A n \in 0 .. 8 : n \in S
  BY <1>4, <1>5, UpToEight
<1>7. g[l] = <<>>
  BY <1>2, <1>6 DEF S
<1> QED  BY <1>1, <1>7 DEF l

\* A field that starts in a run belongs to it.
LEMMA RunSome ==
  ASSUME NEW records, RecordsOK(records, 8), NEW a, NEW b,
         NEW k \in 1 .. Len(records), Taken(records[k], a, b)
  PROVE  RunFrom(records, a, b) # <<>>
<1> DEFINE l == Len(records)
<1>1. PICK g : RunFrom(records, a, b) = g[l] /\ RunOf(records, a, b, g)
  BY RunIs
<1>2. l \in 0 .. 8 /\ k \in 1 .. l /\ \A n \in 1 .. l : records[n] \in Fields
  BY LengthOf
<1>3. /\ \A n \in 1 .. l : g[n] = IF Taken(records[n], a, b) THEN Append(g[n - 1], records[n])
                                                            ELSE g[n - 1]
      /\ \A n \in 0 .. l : g[n] \in Seq(Fields)
  BY <1>1 DEF RunOf
<1> HIDE DEF l
<1> DEFINE S == {n \in 0 .. 8 : k <= n /\ n <= l => g[n] # <<>>}
<1>4. 0 \in S
  BY <1>2
<1>5. ASSUME NEW n \in 0 .. 7, n \in S
      PROVE  n + 1 \in S
  <2> SUFFICES ASSUME n + 1 <= l, k <= n + 1
               PROVE  g[n + 1] # <<>>
    OBVIOUS
  <2>1. n + 1 \in 1 .. l /\ (n + 1) - 1 = n /\ n \in 0 .. l /\ (k = n + 1 \/ k <= n)
    BY <1>2
  <2>2. g[n] \in Seq(Fields) /\ records[n + 1] \in Fields
    BY <1>2, <1>3, <2>1
  <2>3. Append(g[n], records[n + 1]) # <<>>
    BY <2>2
  <2>4. g[n + 1] = IF Taken(records[n + 1], a, b) THEN Append(g[n], records[n + 1]) ELSE g[n]
    BY <1>3, <2>1
  <2>5. CASE k = n + 1
    BY <2>3, <2>4, <2>5
  <2>6. CASE k <= n
    BY <1>5, <2>1, <2>3, <2>4, <2>6
  <2> QED  BY <2>1, <2>5, <2>6
<1> HIDE DEF S
<1>6. \A n \in 0 .. 8 : n \in S
  BY <1>4, <1>5, UpToEight
<1>7. g[l] # <<>>
  BY <1>2, <1>6 DEF S
<1> QED  BY <1>1, <1>7 DEF l

\* Two bounds between which the same fields start.
LEMMA RunAlike ==
  ASSUME NEW records, RecordsOK(records, 8), NEW a, NEW b, NEW c,
         \A n \in 1 .. Len(records) : Taken(records[n], a, b) <=> Taken(records[n], a, c)
  PROVE  RunFrom(records, a, b) = RunFrom(records, a, c)
<1> DEFINE l == Len(records)
<1>1. PICK g : RunFrom(records, a, b) = g[l] /\ RunOf(records, a, b, g)
  BY RunIs
<1>2. PICK h : RunFrom(records, a, c) = h[l] /\ RunOf(records, a, c, h)
  BY RunIs
<1>3. l \in 0 .. 8
  BY LengthOf
<1>4. /\ g[0] = h[0]
      /\ \A n \in 1 .. l : g[n - 1] = h[n - 1] => g[n] = h[n]
  BY <1>1, <1>2 DEF RunOf
<1> HIDE DEF l
<1> DEFINE S == {n \in 0 .. 8 : n <= l => g[n] = h[n]}
<1>5. 0 \in S
  BY <1>4
<1>6. ASSUME NEW n \in 0 .. 7, n \in S
      PROVE  n + 1 \in S
  <2> SUFFICES ASSUME n + 1 <= l
               PROVE  g[n + 1] = h[n + 1]
    OBVIOUS
  <2>1. n + 1 \in 1 .. l /\ (n + 1) - 1 = n /\ n <= l
    BY <1>3
  <2> QED  BY <1>4, <1>6, <2>1
<1> HIDE DEF S
<1>7. \A n \in 0 .. 8 : n \in S
  BY <1>5, <1>6, UpToEight
<1>8. g[l] = h[l]
  BY <1>3, <1>7 DEF S
<1> QED  BY <1>1, <1>2, <1>8 DEF l

\* A run up to the end of its first field.
LEMMA RunOne ==
  ASSUME NEW records, RecordsOK(records, 8), NEW a, NEW b,
         NEW k \in 1 .. Len(records),
         \A n \in 1 .. Len(records) : Taken(records[n], a, b) <=> n = k
  PROVE  RunFrom(records, a, b) = <<records[k]>>
<1> DEFINE l == Len(records)
<1>1. PICK g : RunFrom(records, a, b) = g[l] /\ RunOf(records, a, b, g)
  BY RunIs
<1>2. l \in 0 .. 8 /\ k \in 1 .. l
  BY LengthOf
<1>3. /\ g[0] = <<>>
      /\ \A n \in 1 .. l : g[n] = IF n = k THEN Append(g[n - 1], records[n]) ELSE g[n - 1]
  BY <1>1 DEF RunOf
<1> HIDE DEF l
<1> DEFINE S == {n \in 0 .. 8 : n <= l => g[n] = IF n < k THEN <<>> ELSE <<records[k]>>}
<1>4. 0 \in S
  BY <1>2, <1>3
<1>5. ASSUME NEW n \in 0 .. 7, n \in S
      PROVE  n + 1 \in S
  <2> SUFFICES ASSUME n + 1 <= l
               PROVE  g[n + 1] = IF n + 1 < k THEN <<>> ELSE <<records[k]>>
    OBVIOUS
  <2>1. n + 1 \in 1 .. l /\ (n + 1) - 1 = n /\ n <= l
    BY <1>2
  <2>2. g[n + 1] = IF n + 1 = k THEN Append(g[n], records[n + 1]) ELSE g[n]
    BY <1>3, <2>1
  <2>3. g[n] = IF n < k THEN <<>> ELSE <<records[k]>>
    BY <1>5, <2>1
  <2>4. Append(<<>>, records[k]) = <<records[k]>>
    OBVIOUS
  <2>5. CASE n + 1 = k
    <3>1. n < k /\ ~ (n + 1 < k)
      BY <2>5
    <3> QED  BY <2>2, <2>3, <2>4, <2>5, <3>1
  <2>6. CASE n + 1 # k
    <3>1. n < k <=> n + 1 < k
      BY <1>2, <2>6
    <3> QED  BY <2>2, <2>3, <2>6, <3>1
  <2> QED  BY <2>5, <2>6
<1> HIDE DEF S
<1>6. \A n \in 0 .. 8 : n \in S
  BY <1>4, <1>5, UpToEight
<1>7. g[l] = <<records[k]>>
  BY <1>2, <1>6 DEF S
<1> QED  BY <1>1, <1>7 DEF l

\* To append to the second of two sequences is to append to both.
LEMMA AppendedToPair ==
  ASSUME NEW S, NEW p \in Seq(S), NEW q \in Seq(S), NEW r \in S
  PROVE  p \o Append(q, r) = Append(p \o q, r)
<1> DEFINE e == <<r>>
<1>1. e \in Seq(S)
  OBVIOUS
<1>2. Append(q, r) = q \o e /\ p \o q \in Seq(S)
  BY AppendIsConcat, ConcatProperties
<1>3. Append(p \o q, r) = (p \o q) \o e
  BY <1>2, AppendIsConcat
<1> HIDE DEF e
<1>4. (p \o q) \o e = p \o (q \o e)
  BY <1>1, ConcatAssociative
<1> QED  BY <1>2, <1>3, <1>4

\* Runs that follow each other are one run.
LEMMA RunsJoin ==
  ASSUME NEW records, RecordsOK(records, 8), NEW a \in 0 .. 8, NEW b \in 0 .. 8, a <= b
  PROVE  RunFrom(records, 0, a) \o RunFrom(records, a, b) = RunFrom(records, 0, b)
<1> DEFINE l == Len(records)
<1>1. PICK f : RunFrom(records, 0, a) = f[l] /\ RunOf(records, 0, a, f)
  BY RunIs
<1>2. PICK g : RunFrom(records, a, b) = g[l] /\ RunOf(records, a, b, g)
  BY RunIs
<1>3. PICK h : RunFrom(records, 0, b) = h[l] /\ RunOf(records, 0, b, h)
  BY RunIs
<1>4. /\ l \in 0 .. 8
      /\ \A n \in 1 .. l : records[n] \in Fields /\ records[n].sector \in Nat
      /\ \A m, n \in 1 .. l : m < n => records[m].sector <= records[n].sector
  <2>1. /\ l \in 0 .. 8
        /\ \A n \in 1 .. l : records[n] \in Fields /\ records[n].sector \in Nat
    BY LengthOf
  <2>2. \A m, n \in 1 .. l : m < n => records[m].sector + Width(records[m].kind) <= records[n].sector
    BY DEF RecordsOK
  <2>3. \A m \in 1 .. l : Width(records[m].kind) \in {1, 2, 4}
    BY WidthIs
  <2> QED  BY <2>1, <2>2, <2>3
<1> DEFINE Before(n) == \A m \in 1 .. l : m <= n => records[m].sector < a
           P(n) == n <= l => /\ f[n] \o g[n] = h[n]
                             /\ g[n] = <<>> \/ ~Before(n)
           S == {n \in 0 .. 8 : P(n)}
<1>5. /\ f[0] = <<>> /\ g[0] = <<>> /\ h[0] = <<>>
      /\ \A n \in 1 .. l :
           /\ f[n] = IF Taken(records[n], 0, a) THEN Append(f[n - 1], records[n]) ELSE f[n - 1]
           /\ g[n] = IF Taken(records[n], a, b) THEN Append(g[n - 1], records[n]) ELSE g[n - 1]
           /\ h[n] = IF Taken(records[n], 0, b) THEN Append(h[n - 1], records[n]) ELSE h[n - 1]
      /\ \A n \in 0 .. l : f[n] \in Seq(Fields) /\ g[n] \in Seq(Fields) /\ h[n] \in Seq(Fields)
  BY <1>1, <1>2, <1>3 DEF RunOf
<1> HIDE DEF l
<1> HIDE DEF Before
<1>6. 0 \in S
  <2>1. <<>> \o <<>> = <<>>
    OBVIOUS
  <2>2. P(0)
    BY <1>5, <2>1
  <2> HIDE DEF P
  <2> QED  BY <2>2
<1>7. ASSUME NEW n \in 0 .. 7, n \in S
      PROVE  n + 1 \in S
  <2> SUFFICES ASSUME n + 1 <= l
               PROVE  /\ f[n + 1] \o g[n + 1] = h[n + 1]
                      /\ g[n + 1] = <<>> \/ ~Before(n + 1)
    <3>1. P(n + 1)
      OBVIOUS
    <3> HIDE DEF P
    <3> QED  BY <3>1
  <2> DEFINE r == records[n + 1]
             s == r.sector
  <2>1. /\ n + 1 \in 1 .. l /\ (n + 1) - 1 = n /\ n <= l /\ n \in 0 .. l
        /\ r \in Fields /\ s \in Nat
    BY <1>4
  <2>2. /\ f[n] \o g[n] = h[n]
        /\ g[n] = <<>> \/ ~Before(n)
        /\ f[n] \in Seq(Fields) /\ g[n] \in Seq(Fields)
    BY <1>5, <1>7, <2>1
  <2>3. /\ f[n + 1] = IF Taken(r, 0, a) THEN Append(f[n], r) ELSE f[n]
        /\ g[n + 1] = IF Taken(r, a, b) THEN Append(g[n], r) ELSE g[n]
        /\ h[n + 1] = IF Taken(r, 0, b) THEN Append(h[n], r) ELSE h[n]
    BY <1>5, <2>1
  <2>4. Before(n + 1) => Before(n)
    BY DEF Before
  <2>5. s < a => Before(n)
    <3> SUFFICES ASSUME s < a, NEW m \in 1 .. l, m <= n
                 PROVE  records[m].sector < a
      BY DEF Before
    <3>1. m < n + 1
      BY <1>4
    <3>2. records[m].sector <= s /\ records[m].sector \in Nat
      BY <1>4, <2>1, <3>1
    <3> QED  BY <2>1, <3>2
  <2>6. Before(n + 1) => s < a
    BY <2>1 DEF Before
  <2> HIDE DEF r
  <2>7. CASE s < a
    <3>1. Taken(r, 0, a) /\ ~Taken(r, a, b) /\ Taken(r, 0, b)
      BY <2>1, <2>7 DEF Taken
    <3>2. g[n] = <<>> /\ g[n + 1] = <<>>
      BY <2>2, <2>3, <2>5, <2>7, <3>1
    <3>3. f[n] \o <<>> = f[n] /\ Append(f[n], r) \o <<>> = Append(f[n], r)
      BY <2>1, <2>2
    <3> QED  BY <2>2, <2>3, <3>1, <3>2, <3>3
  <2>8. CASE ~ (s < a) /\ s < b
    <3>1. ~Taken(r, 0, a) /\ Taken(r, a, b) /\ Taken(r, 0, b)
      BY <2>1, <2>8 DEF Taken
    <3>2. f[n] \o Append(g[n], r) = Append(f[n] \o g[n], r)
      <4> DEFINE p == f[n]
                 q == g[n]
                 x == r
      <4>1. p \in Seq(Fields) /\ q \in Seq(Fields) /\ x \in Fields
        BY <2>1, <2>2
      <4> HIDE DEF p, q, x
      <4>2. p \o Append(q, x) = Append(p \o q, x)
        BY <4>1, AppendedToPair
      <4> QED  BY <4>2 DEF p, q, x
    <3> QED  BY <2>2, <2>3, <2>6, <2>8, <3>1, <3>2
  <2>9. CASE ~ (s < a) /\ ~ (s < b)
    <3>1. ~Taken(r, 0, a) /\ ~Taken(r, a, b) /\ ~Taken(r, 0, b)
      BY <2>1, <2>9 DEF Taken
    <3> QED  BY <2>2, <2>3, <2>4, <3>1
  <2> QED  BY <2>7, <2>8, <2>9
<1> HIDE DEF S
<1>8. \A n \in 0 .. 8 : n \in S
  BY <1>6, <1>7, UpToEight
<1>9. f[l] \o g[l] = h[l]
  <2>1. P(l)
    BY <1>4, <1>8 DEF S
  <2>2. l <= l
    BY <1>4
  <2> QED  BY <2>1, <2>2
<1> QED  BY <1>1, <1>2, <1>3, <1>9 DEF l

-------------------------------------------------------------------------------
(* What the partitioner offers.                                                *)

\* The community modules' Max is the largest of a set of sectors.
LEMMA MaxOf ==
  ASSUME NEW S \in SUBSET (0 .. 8), S # {}
  PROVE  Max(S) \in S /\ \A y \in S : y <= Max(S)
<1>1. \E x \in S : \A y \in S : x >= y
  <2> DEFINE P(n) == (\E x \in S : n <= x) => \E x \in S : \A y \in S : x >= y
             T == {n \in 0 .. 8 : P(8 - n)}
  <2>1. P(8)
    OBVIOUS
  <2>2. ASSUME NEW n \in 0 .. 7, P(n + 1)
        PROVE  P(n)
    <3> SUFFICES ASSUME NEW x \in S, n <= x
                 PROVE  \E z \in S : \A y \in S : z >= y
      OBVIOUS
    <3>1. CASE \E y \in S : n + 1 <= y
      BY <2>2, <3>1
    <3>2. CASE ~ \E y \in S : n + 1 <= y
      <4>1. \A y \in S : x >= y
        BY <3>2
      <4> QED  BY <4>1
    <3> QED  BY <3>1, <3>2
  <2> HIDE DEF P
  <2>3. \A n \in 0 .. 8 : n \in T
    <3>1. 0 \in T
      BY <2>1
    <3>2. ASSUME NEW n \in 0 .. 7, n \in T
          PROVE  n + 1 \in T
      <4>1. 8 - (n + 1) \in 0 .. 7 /\ (8 - (n + 1)) + 1 = 8 - n /\ P(8 - n) /\ n + 1 \in 0 .. 8
        BY <3>2
      <4>2. P(8 - (n + 1))
        BY <2>2, <4>1
      <4> QED  BY <4>1, <4>2
    <3> HIDE DEF T
    <3> QED  BY <3>1, <3>2, UpToEight
  <2>4. P(0)
    <3>1. P(8 - 8) /\ 8 - 8 = 0
      BY <2>3
    <3> QED  BY <3>1
  <2>5. \E x \in S : 0 <= x
    <3>1. PICK x \in S : TRUE
      OBVIOUS
    <3>2. x \in 0 .. 8
      OBVIOUS
    <3> QED  BY <3>2
  <2>6. (\E x \in S : 0 <= x) => \E x \in S : \A y \in S : x >= y
    BY <2>4 DEF P
  <2> QED  BY <2>5, <2>6
<1>2. Max(S) \in S /\ \A y \in S : Max(S) >= y
  BY <1>1 DEF Max
<1> QED  BY <1>2

Fit(run, capacity, mode) ==
  /\ run # <<>>
  /\ Len(run) <= Limits(mode.auth)
  /\ Fits(Requirements(run, mode.shared), capacity)
Ends(records, at, capacity, mode) ==
  {e \in at + 1 .. 8 : WholeRun(records, e) /\ Fit(RunFrom(records, at, e), capacity, mode)}

\* What ChooseRun offers, in terms of the ends that fit.
LEMMA OfferIs ==
  ASSUME NEW cells, NEW at, NEW capacity, NEW mode
  PROVE  LET out == ChooseRun(cells, at, capacity, mode)
             records == Derive(cells).records
             error == ~FormatOk(cells, mode.response)
             end == Max({0} \cup Ends(records, at, capacity, mode))
         IN  /\ out.valid = (~error /\ end # 0)
             /\ out.end = IF error THEN 0 ELSE end
             /\ out.run = IF error \/ end = 0 THEN <<>> ELSE RunFrom(records, at, end)
BY DEF ChooseRun, Ends, Fit

\* A valid offer goes to the last of the ends that fit.
LEMMA OfferValid ==
  ASSUME NEW cells, NEW at \in 0 .. 7, NEW capacity, NEW mode,
         NEW out, out = ChooseRun(cells, at, capacity, mode)
  PROVE  LET ends == Ends(Derive(cells).records, at, capacity, mode)
         IN  /\ out.valid <=> FormatOk(cells, mode.response) /\ ends # {}
             /\ out.valid => /\ out.end \in ends /\ \A e \in ends : e <= out.end
                             /\ out.run = RunFrom(Derive(cells).records, at, out.end)
<1> DEFINE ends == Ends(Derive(cells).records, at, capacity, mode)
           end == Max({0} \cup ends)
<1>1. /\ out.valid = (FormatOk(cells, mode.response) /\ end # 0)
      /\ out.valid => out.end = end /\ out.run = RunFrom(Derive(cells).records, at, end)
  BY OfferIs
<1>2. ends \subseteq 1 .. 8
  BY DEF Ends
<1> HIDE DEF ends
<1>3. end \in {0} \cup ends /\ \A e \in {0} \cup ends : e <= end
  <2>1. {0} \cup ends \in SUBSET (0 .. 8) /\ {0} \cup ends # {}
    BY <1>2
  <2> QED  BY <2>1, MaxOf
<1> HIDE DEF end
<1>4. end # 0 <=> ends # {}
  <2>1. CASE ends = {}
    BY <1>3, <2>1
  <2>2. CASE ends # {}
    <3>1. PICK e \in ends : TRUE
      BY <2>2
    <3>2. e \in 1 .. 8 /\ e <= end
      BY <1>2, <1>3, <3>1
    <3> QED  BY <2>2, <3>2
  <2> QED  BY <2>1, <2>2
<1>5. end # 0 => end \in ends /\ \A e \in ends : e <= end
  BY <1>3
<1> QED  BY <1>1, <1>4, <1>5 DEF ends

\* A group whose format is right parses, and has a field.
LEMMA FormatMeans ==
  ASSUME NEW cells, NEW response, FormatOk(cells, response)
  PROVE  Derive(cells).status = "ok" /\ Derive(cells).records # <<>>
BY DEF FormatOk

\* Where each field lies.
LEMMA FieldsLie ==
  ASSUME NEW records, RecordsOK(records, 8)
  PROVE  /\ Len(records) \in 0 .. 8 /\ DOMAIN records = 1 .. Len(records)
         /\ \A n \in 1 .. Len(records) :
              /\ records[n].sector \in 0 .. 7 /\ Width(records[n].kind) \in {1, 2, 4}
              /\ records[n].sector + Width(records[n].kind) <= 8
         /\ \A m, n \in 1 .. Len(records) :
              m < n => records[m].sector + Width(records[m].kind) <= records[n].sector
<1>1. /\ records \in Seq(Fields) /\ Len(records) \in 0 .. 8
      /\ \A n \in 1 .. Len(records) : records[n].sector \in Nat
  BY LengthOf
<1>2. DOMAIN records = 1 .. Len(records)
  BY <1>1
<1>3. /\ \A n \in 1 .. Len(records) : records[n].sector + Width(records[n].kind) <= 8
      /\ \A m, n \in 1 .. Len(records) :
           m < n => records[m].sector + Width(records[m].kind) <= records[n].sector
  BY DEF RecordsOK
<1>4. \A n \in 1 .. Len(records) : Width(records[n].kind) \in {1, 2, 4}
  BY WidthIs
<1>5. \A n \in 1 .. Len(records) : records[n].sector \in 0 .. 7
  <2> SUFFICES ASSUME NEW n \in 1 .. Len(records)
               PROVE  records[n].sector \in 0 .. 7
    OBVIOUS
  <2> DEFINE x == records[n].sector
             w == Width(records[n].kind)
  <2>1. x \in Nat /\ w \in {1, 2, 4} /\ x + w <= 8
    BY <1>1, <1>3, <1>4
  <2> HIDE DEF x, w
  <2>2. x \in 0 .. 7
    BY <2>1
  <2> QED  BY <2>2 DEF x
<1> QED  BY <1>1, <1>2, <1>3, <1>4, <1>5

\* A run that does not reach the end of the half leaves a field behind: it would
\* otherwise be no longer than the one that does.
LEMMA RunLeavesMore ==
  ASSUME NEW cells, CellsOK(cells), NEW at \in 0 .. 7, NEW capacity, NEW mode,
         NEW out, out = ChooseRun(cells, at, capacity, mode), out.valid, out.end # 8
  PROVE  RunFrom(Derive(cells).records, out.end, 8) # <<>>
<1> DEFINE records == Derive(cells).records
           end == out.end
<1>1. RecordsOK(records, 8)
  BY DerivedFields
<1>2. /\ end \in Ends(records, at, capacity, mode)
      /\ \A e \in Ends(records, at, capacity, mode) : e <= end
  BY OfferValid
<1>3. end \in at + 1 .. 8 /\ Fit(RunFrom(records, at, end), capacity, mode)
  BY <1>2 DEF Ends
<1> HIDE DEF records, end
<1> SUFFICES ASSUME RunFrom(records, end, 8) = <<>>
             PROVE  FALSE
  BY DEF records, end
<1>4. \A n \in 1 .. Len(records) : Taken(records[n], at, end) <=> Taken(records[n], at, 8)
  <2> SUFFICES ASSUME NEW n \in 1 .. Len(records)
               PROVE  Taken(records[n], at, end) <=> Taken(records[n], at, 8)
    OBVIOUS
  <2>1. ~Taken(records[n], end, 8)
    BY <1>1, RunSome
  <2>2. records[n].sector \in 0 .. 7
    BY <1>1, FieldsLie
  <2> QED  BY <1>3, <2>1, <2>2 DEF Taken
<1>5. RunFrom(records, at, 8) = RunFrom(records, at, end)
  BY <1>1, <1>4, RunAlike
<1>6. WholeRun(records, 8)
  <2> SUFFICES ASSUME NEW i \in DOMAIN records
               PROVE  ~(8 < records[i].sector + Width(records[i].kind))
    BY DEF WholeRun
  <2>1. /\ records[i].sector \in 0 .. 7 /\ Width(records[i].kind) \in {1, 2, 4}
        /\ records[i].sector + Width(records[i].kind) <= 8
    BY <1>1, FieldsLie
  <2> QED  BY <2>1
<1>7. 8 \in Ends(records, at, capacity, mode)
  BY <1>3, <1>5, <1>6 DEF Ends
<1>8. 8 <= end
  BY <1>2, <1>7
<1> QED  BY <1>3, <1>8 DEF end

\* The first field that is left makes a run by itself.
LEMMA FirstFieldFits ==
  ASSUME NEW cells, CellsOK(cells), NEW at \in 0 .. 7, NEW capacity, NEW mode,
         FormatOk(cells, mode.response),
         \A r \in Range(Derive(cells).records) :
            Fits(Requirements(<<r>>, mode.shared), capacity),
         RunFrom(Derive(cells).records, at, 8) # <<>>
  PROVE  ChooseRun(cells, at, capacity, mode).valid
<1> DEFINE records == Derive(cells).records
           l == Len(records)
           sector(n) == records[n].sector
           width(n) == Width(records[n].kind)
           top(n) == sector(n) + width(n)
<1>1. RecordsOK(records, 8)
  BY DerivedFields
<1>2. /\ l \in 0 .. 8 /\ DOMAIN records = 1 .. l
      /\ \A n \in 1 .. l : sector(n) \in 0 .. 7 /\ top(n) \in 0 .. 8 /\ sector(n) < top(n)
      /\ \A m, n \in 1 .. l : m < n => top(m) <= sector(n)
  <2>1. /\ l \in 0 .. 8 /\ DOMAIN records = 1 .. l
        /\ \A n \in 1 .. l : /\ sector(n) \in 0 .. 7 /\ width(n) \in {1, 2, 4} /\ top(n) <= 8
        /\ \A m, n \in 1 .. l : m < n => top(m) <= sector(n)
    BY <1>1, FieldsLie
  <2> HIDE DEF sector, width, l, records
  <2>2. ASSUME NEW n \in 1 .. l
        PROVE  top(n) \in 0 .. 8 /\ sector(n) < top(n)
    <3>1. sector(n) \in 0 .. 7 /\ width(n) \in {1, 2, 4} /\ top(n) <= 8
      BY <2>1
    <3> QED  BY <3>1
  <2> HIDE DEF top
  <2> QED  BY <2>1, <2>2
<1>3. RunFrom(records, at, 8) # <<>>
  OBVIOUS
<1>4. \A r \in Range(records) : Fits(Requirements(<<r>>, mode.shared), capacity)
  OBVIOUS
<1> HIDE DEF records, l, top
<1>5. PICK k \in 1 .. l : at <= sector(k) /\ \A n \in 1 .. l : at <= sector(n) => k <= n
  <2>1. PICK n \in 1 .. l : at <= sector(n)
    BY <1>1, <1>3, RunEmpty DEF Taken, l
  <2> DEFINE S == {8 - m : m \in {m \in 1 .. l : at <= sector(m)}}
  <2>2. S \in SUBSET (0 .. 8) /\ S # {}
    <3>1. 8 - n \in S
      BY <2>1
    <3>2. \A m \in 1 .. l : 8 - m \in 0 .. 8
      BY <1>2
    <3> QED  BY <3>1, <3>2
  <2>3. Max(S) \in S /\ \A y \in S : y <= Max(S)
    BY <2>2, MaxOf
  <2>4. PICK m \in 1 .. l : at <= sector(m) /\ Max(S) = 8 - m
    BY <2>3
  <2>5. ASSUME NEW i \in 1 .. l, at <= sector(i)
        PROVE  m <= i
    <3>1. 8 - i \in S
      BY <2>5
    <3>2. 8 - i <= 8 - m
      BY <2>3, <2>4, <3>1
    <3> QED  BY <1>2, <3>2
  <2> QED  BY <2>4, <2>5
<1> DEFINE e == top(k)
<1>6. e \in at + 1 .. 8
  <2>1. top(k) \in 0 .. 8 /\ sector(k) < top(k) /\ at <= sector(k) /\ sector(k) \in 0 .. 7
    BY <1>2, <1>5
  <2> QED  BY <2>1
<1>7. ASSUME NEW n \in 1 .. l
      PROVE  Taken(records[n], at, e) <=> n = k
  <2>1. CASE n = k
    BY <1>2, <1>5, <2>1 DEF Taken
  <2>2. CASE n < k
    <3>1. ~ (at <= sector(n))
      BY <1>2, <1>5, <2>2
    <3> QED  BY <1>2, <2>2, <3>1 DEF Taken
  <2>3. CASE n > k
    <3>1. top(k) <= sector(n) /\ sector(n) \in 0 .. 7 /\ top(k) \in 0 .. 8
      BY <1>2, <2>3
    <3>2. ~ (sector(n) < e)
      BY <3>1
    <3> QED  BY <1>2, <2>3, <3>2 DEF Taken
  <2> QED  BY <1>2, <2>1, <2>2, <2>3
<1>8. RunFrom(records, at, e) = <<records[k]>>
  BY <1>1, <1>7, RunOne DEF l
<1>9. WholeRun(records, e)
  <2> SUFFICES ASSUME NEW i \in 1 .. l
               PROVE  ~(sector(i) < e /\ e < top(i))
    BY <1>2 DEF WholeRun, top
  <2>1. CASE i = k
    BY <1>2, <2>1
  <2> HIDE DEF sector
  <2>2. CASE i < k
    <3>1. /\ top(i) <= sector(k) /\ sector(k) < top(k)
          /\ top(i) \in 0 .. 8 /\ sector(k) \in 0 .. 7 /\ top(k) \in 0 .. 8
      BY <1>2, <2>2
    <3> QED  BY <3>1
  <2>3. CASE i > k
    <3>1. top(k) <= sector(i) /\ top(k) \in 0 .. 8 /\ sector(i) \in 0 .. 7
      BY <1>2, <2>3
    <3> QED  BY <3>1
  <2> QED  BY <1>2, <2>1, <2>2, <2>3
<1>10. Fit(<<records[k]>>, capacity, mode)
  <2>1. records[k] \in Range(records)
    BY <1>2 DEF Range
  <2>2. Len(<<records[k]>>) = 1 /\ 1 <= Limits(mode.auth) /\ <<records[k]>> # <<>>
    BY DEF Limits
  <2> QED  BY <1>4, <2>1, <2>2 DEF Fit
<1>11. e \in Ends(records, at, capacity, mode)
  BY <1>6, <1>8, <1>9, <1>10 DEF Ends
<1> QED  BY <1>11, OfferValid DEF records

-------------------------------------------------------------------------------
(* The partitioner.                                                            *)

GroupFollows(g) ==
  Derive(g.cells).status = "ok" =>
     /\ sent = RunFrom(Records(g), 0, cursor)
     /\ Records(g) # <<>> /\ cursor > 0 => RunFrom(Records(g), cursor, 8) # <<>>

PartitionInv ==
  /\ group = {} \/ \E g \in Groups1 \cup Groups2 : group = {g}
  /\ cursor \in 0 .. 7
  /\ group = {} => cursor = 0 /\ sent = <<>>
  /\ \A g \in group : GroupFollows(g)

\* The groups of the model have fields that lie in order.
LEMMA GroupCells ==
  ASSUME NEW g \in Groups1 \cup Groups2
  PROVE  CellsOK(g.cells) /\ RecordsOK(Records(g), 8)
<1>1. CellsOK(g.cells)
  BY GroupsAssumption DEF CellsOK, CellOK, Cells
<1> QED  BY <1>1, DerivedFields DEF Records

\* A group of which nothing has gone out.
LEMMA AtStart ==
  ASSUME NEW g \in Groups1 \cup Groups2
  PROVE  RunFrom(Records(g), 0, 0) = <<>>
<1>1. RecordsOK(Records(g), 8)
  BY GroupCells
<1>2. \A n \in 1 .. Len(Records(g)) : ~Taken(Records(g)[n], 0, 0)
  <2>1. \A n \in 1 .. Len(Records(g)) : Records(g)[n].sector \in 0 .. 7
    BY <1>1, FieldsLie
  <2> QED  BY <2>1 DEF Taken
<1> QED  BY <1>1, <1>2, RunEmpty

\* A run that is taken moves the cursor behind itself.
LEMMA RunTaken ==
  ASSUME NEW g \in Groups1 \cup Groups2, cursor \in 0 .. 7, GroupFollows(g),
         NEW out, out = Chosen(g, cursor), out.valid
  PROVE  /\ out.end \in 1 .. 8
         /\ out.end # 8 =>
              /\ sent \o out.run = RunFrom(Records(g), 0, out.end)
              /\ RunFrom(Records(g), out.end, 8) # <<>>
<1> DEFINE records == Records(g)
<1>1. CellsOK(g.cells) /\ RecordsOK(records, 8)
  BY GroupCells
<1>2. out = ChooseRun(g.cells, cursor, g.capacity, g.mode)
  BY DEF Chosen
<1>3. /\ FormatOk(g.cells, g.mode.response)
      /\ out.end \in Ends(records, cursor, g.capacity, g.mode)
      /\ out.run = RunFrom(records, cursor, out.end)
  BY <1>2, OfferValid DEF Records
<1>4. out.end \in cursor + 1 .. 8
  BY <1>3 DEF Ends
<1>5. sent = RunFrom(records, 0, cursor)
  BY <1>3, FormatMeans DEF GroupFollows
<1>6. sent \o out.run = RunFrom(records, 0, out.end)
  <2> DEFINE end == out.end
  <2>1. cursor \in 0 .. 8 /\ end \in 0 .. 8 /\ cursor <= end
    BY <1>4
  <2> HIDE DEF end, records
  <2>2. RunFrom(records, 0, cursor) \o RunFrom(records, cursor, end) = RunFrom(records, 0, end)
    BY <1>1, <2>1, RunsJoin
  <2> QED  BY <1>3, <1>5, <2>2 DEF end
<1>7. out.end # 8 => RunFrom(records, out.end, 8) # <<>>
  BY <1>1, <1>2, RunLeavesMore DEF Records
<1> QED  BY <1>4, <1>6, <1>7

\* Nothing has gone out of the first group.
LEMMA PartitionStarts == PartitionInit => PartitionInv
<1> SUFFICES ASSUME PartitionInit
             PROVE  PartitionInv
  OBVIOUS
<1>1. PICK g \in Groups1 : group = {g}
  BY DEF PartitionInit
<1>2. cursor = 0 /\ sent = <<>>
  BY DEF PartitionInit
<1>3. GroupFollows(g)
  BY <1>2, AtStart DEF GroupFollows
<1> QED  BY <1>1, <1>2, <1>3 DEF PartitionInv

\* One edge: a group comes, a run goes out, or the last of them does.
LEMMA PartitionKeeps ==
  ASSUME PartitionInv, NEW ready, NEW done, NEW offered,
         offered = {} \/ \E g \in Groups2 : offered = {g},
         NEW run, run = [g \in group |-> Chosen(g, cursor)],
         PartitionEdge(run, ready, done, offered)
  PROVE  PartitionInv'
<1> DEFINE taken == {g \in group : run[g].valid /\ ready /\ (style = "direct" => done)}
           finished == {g \in taken : run[g].end = 8}
           sourceReady == (style = "prepared" => done) /\ group = finished
<1>1. /\ group' = (group \ finished) \cup (IF sourceReady THEN offered ELSE {})
      /\ taken = {} => cursor' = cursor /\ sent' = sent
      /\ taken # {} => \E g \in taken :
           /\ cursor' = CursorAfter(run[g])
           /\ sent' = IF finished = taken THEN <<>> ELSE sent \o run[g].run
  BY DEF PartitionEdge
<1>2. /\ group = {} \/ \E g \in Groups1 \cup Groups2 : group = {g}
      /\ cursor \in 0 .. 7
      /\ group = {} => cursor = 0 /\ sent = <<>>
      /\ \A g \in group : GroupFollows(g)
  BY DEF PartitionInv
<1>3. taken \subseteq group /\ finished \subseteq taken
  OBVIOUS
<1>4. \A g \in taken : run[g] = Chosen(g, cursor) /\ Chosen(g, cursor).valid
  OBVIOUS
<1>5. \A g \in taken : g \in finished <=> run[g].end = 8
  OBVIOUS
<1>6. sourceReady => group = finished
  OBVIOUS
<1> HIDE DEF taken, finished, sourceReady
\* Nothing of the group at hand has gone out, or there is no group.
<1>7. ASSUME cursor' = 0, sent' = <<>>, group' = {} \/ \E g \in Groups1 \cup Groups2 : group' = {g}
      PROVE  PartitionInv'
  <2>1. \A g \in group' : GroupFollows(g)'
    <3> SUFFICES ASSUME NEW g \in group'
                 PROVE  GroupFollows(g)'
      OBVIOUS
    <3>1. g \in Groups1 \cup Groups2
      BY <1>7
    <3>2. sent' = RunFrom(Records(g), 0, cursor')
      BY <1>7, <3>1, AtStart
    <3>3. ~ (cursor' > 0)
      BY <1>7
    <3> QED  BY <3>2, <3>3 DEF GroupFollows, Records
  <2> QED  BY <1>7, <2>1 DEF PartitionInv
<1>8. CASE group = {}
  <2>1. taken = {} /\ finished = {}
    BY <1>3, <1>8
  <2>2. group' \in {{}, offered}
    BY <1>1, <1>8, <2>1
  <2> QED  BY <1>1, <1>2, <1>7, <1>8, <2>1, <2>2
<1>9. CASE group # {}
  <2>1. PICK g \in Groups1 \cup Groups2 : group = {g}
    BY <1>2, <1>9
  <2>2. CASE taken = {}
    <3>1. finished = {} /\ ~sourceReady
      BY <1>3, <1>6, <1>9, <2>2
    <3>2. group' = group /\ cursor' = cursor /\ sent' = sent
      BY <1>1, <2>2, <3>1
    <3> QED  BY <1>2, <3>2 DEF PartitionInv, GroupFollows, Records
  <2>3. CASE taken # {}
    <3>1. taken = {g}
      BY <1>3, <2>1, <2>3
    <3>2. /\ cursor' = CursorAfter(run[g])
          /\ sent' = IF finished = taken THEN <<>> ELSE sent \o run[g].run
      BY <1>1, <3>1
    <3> DEFINE out == run[g]
    <3>3. out = Chosen(g, cursor) /\ out.valid
      BY <1>4, <3>1
    <3>4. GroupFollows(g)
      BY <1>2, <2>1
    <3>5. /\ out.end \in 1 .. 8
          /\ out.end # 8 =>
              /\ sent \o out.run = RunFrom(Records(g), 0, out.end)
              /\ RunFrom(Records(g), out.end, 8) # <<>>
      BY <1>2, <3>3, <3>4, RunTaken
    <3> HIDE DEF out
    <3>6. CASE out.end = 8
      <4>1. finished = {g}
        BY <1>3, <1>5, <3>1, <3>6 DEF out
      <4>2. cursor' = 0 /\ sent' = <<>>
        BY <3>1, <3>2, <3>6, <4>1 DEF CursorAfter, out
      <4>3. group' = {} \/ \E h \in Groups1 \cup Groups2 : group' = {h}
        <5>1. group' \in {{}, offered}
          BY <1>1, <2>1, <4>1
        <5> QED  BY <5>1
      <4> QED  BY <1>7, <4>2, <4>3
    <3>7. CASE out.end # 8
      <4>1. finished = {}
        BY <1>3, <1>5, <3>1, <3>7 DEF out
      <4>2. group' = {g}
        BY <1>1, <1>6, <2>1, <4>1
      <4>3. cursor' = out.end /\ sent' = sent \o out.run
        BY <3>1, <3>2, <3>7, <4>1 DEF CursorAfter, out
      <4>4. GroupFollows(g)'
        BY <3>5, <3>7, <4>3 DEF GroupFollows, Records
      <4>5. cursor' \in 0 .. 7
        BY <3>5, <3>7, <4>3
      <4> QED  BY <2>1, <4>2, <4>4, <4>5 DEF PartitionInv
    <3> QED  BY <3>6, <3>7
  <2> QED  BY <2>2, <2>3
<1> QED  BY <1>8, <1>9

\* The same for every step, a reset included.
LEMMA PartitionStep ==
  ASSUME PartitionInv, [PartitionNext]_partitionVars
  PROVE  PartitionInv'
<1>1. CASE Partition
  <2>1. PICK run \in {[g \in group |-> Chosen(g, cursor)]}, ready \in BOOLEAN, done \in BOOLEAN,
             offered \in {{}} \cup {{g} : g \in Groups2} :
          PartitionEdge(run, ready, done, offered)
    BY <1>1 DEF Partition
  <2>2. offered = {} \/ \E g \in Groups2 : offered = {g}
    OBVIOUS
  <2> QED  BY <2>1, <2>2, PartitionKeeps
<1>2. CASE PartitionReset
  BY <1>2 DEF PartitionReset, PartitionInv
<1>3. CASE UNCHANGED partitionVars
  BY <1>3 DEF partitionVars, PartitionInv, GroupFollows, Records
<1> QED  BY <1>1, <1>2, <1>3 DEF PartitionNext

\* What is kept says that groups go out whole, and that there is a run to send.
LEMMA PartitionMeans ==
  ASSUME PartitionInv
  PROVE  GroupsGoOutWhole
<1>1. FieldsInOrder
  BY DEF PartitionInv, FieldsInOrder, GroupFollows
<1>2. NeverStuck
  <2> SUFFICES ASSUME NEW g \in group, FormatOk(g.cells, g.mode.response),
                      \A r \in Range(Records(g)) :
                         Fits(Requirements(<<r>>, g.mode.shared), g.capacity)
               PROVE  Chosen(g, cursor).valid
    BY DEF NeverStuck
  <2>1. g \in Groups1 \cup Groups2 /\ GroupFollows(g) /\ cursor \in 0 .. 7
    BY DEF PartitionInv
  <2>2. CellsOK(g.cells) /\ RecordsOK(Records(g), 8)
    BY <2>1, GroupCells
  <2>3. Derive(g.cells).status = "ok" /\ Records(g) # <<>>
    BY FormatMeans DEF Records
  <2>4. RunFrom(Records(g), cursor, 8) # <<>>
    <3>1. CASE cursor > 0
      BY <2>1, <2>3, <3>1 DEF GroupFollows
    <3>2. CASE cursor = 0
      <4>1. 1 \in 1 .. Len(Records(g)) /\ Records(g)[1].sector \in 0 .. 7
        BY <2>2, <2>3, FieldsLie, LengthOf, EmptySeq
      <4>2. Taken(Records(g)[1], 0, 8)
        BY <4>1 DEF Taken
      <4> QED  BY <2>2, <3>2, <4>1, <4>2, RunSome
    <3> QED  BY <2>1, <3>1, <3>2
  <2> QED  BY <2>1, <2>2, <2>4, FirstFieldFits DEF Chosen, Records
<1> QED  BY <1>1, <1>2 DEF GroupsGoOutWhole

\* Both partitioners (control_partition.py, prepared_partition.py) send each group
\* whole and in order, for all groups, capacities and modes, under any back pressure:
\* the runs taken are the fields before the cursor, there are fields left behind it,
\* and if each field fits the peer's capacity by itself there is always a run to send.
THEOREM GroupsAlwaysGoOutWhole == PartitionSpec => []GroupsGoOutWhole
<1>1. PartitionInit => PartitionInv
  BY PartitionStarts
<1>2. PartitionInv /\ [PartitionNext]_partitionVars => PartitionInv'
  BY PartitionStep
<1>3. PartitionInv => GroupsGoOutWhole
  BY PartitionMeans
<1> QED  BY <1>1, <1>2, <1>3, PTL DEF PartitionSpec
=================================================================================
