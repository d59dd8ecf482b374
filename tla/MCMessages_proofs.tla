--------------------------- MODULE MCMessages_proofs ---------------------------
(* Proofs about MCMessages: the circuits of the message arbiter, of the basic   *)
(* controller and of the three blocks of a UART port show at every edge what    *)
(* the references show, and go where the references go, whatever the number of  *)
(* words, the depths of the queues, the counters and the times.                 *)
(*                                                                              *)
(* Each block has a part of its own: what the states of the block have in       *)
(* common, that it is kept, and that a circuit in step with such a state stays  *)
(* in step.  The last part puts them together.                                  *)
EXTENDS MCMessages, SequenceTheorems, FiniteSetTheorems, TLAPS

-------------------------------------------------------------------------------
(* The arbiter.  Its tables are rows of a round robin: the place of a member in *)
(* the row of a cursor is its distance from the cursor.                        *)

\* The groups, written out.
LEMMA GroupsAre ==
  ASSUME NEW s \in Sources
  PROVE  /\ GroupOf(s) = (IF s < 5 THEN 0 ELSE IF s < 7 THEN 1 ELSE 2)
         /\ GroupOf(s) \in Groups
         /\ Local(s) = (IF s < 5 THEN s ELSE IF s < 7 THEN s - 5 ELSE s - 7)
         /\ Local(s) \in 0..(Size[GroupOf(s)] - 1)
<1>1. /\ First[0] = 0 /\ First[1] = 5 /\ First[2] = 7
      /\ Size[0] = 5 /\ Size[1] = 2 /\ Size[2] = 4
  BY DEF First, Size, Groups
<1>2. \A g \in Groups :
        s \in First[g]..(First[g] + Size[g] - 1)
          <=> g = (IF s < 5 THEN 0 ELSE IF s < 7 THEN 1 ELSE 2)
  BY <1>1 DEF Groups, Sources
<1>3. GroupOf(s) = (IF s < 5 THEN 0 ELSE IF s < 7 THEN 1 ELSE 2)
  BY <1>2 DEF GroupOf, Groups
<1> QED  BY <1>1, <1>3 DEF Local, Groups, Sources

\* Places in a short row.
LEMMA UpToFive ==
  ASSUME NEW n \in 1..5
  PROVE  \A i \in 1..n : i = 1 \/ i = 2 \/ i = 3 \/ i = 4 \/ i = 5
OBVIOUS

\* The first candidate of a row is the nearest one: d[x] is the distance of x.
LEMMA FirstIsNearest ==
  ASSUME NEW n \in 1..5, NEW X, NEW row \in [1..n -> X], NEW d \in [X -> 0..(n - 1)],
         \A x \in X : row[d[x] + 1] = x, \A i \in 1..n : d[row[i]] = i - 1,
         NEW C \in SUBSET X, C # {}
  PROVE  /\ FirstIn(row, C) \in C
         /\ \A y \in C : y # FirstIn(row, C) => d[FirstIn(row, C)] < d[y]
<1> DEFINE hits == {i \in 1..n : row[i] \in C}
<1>1. DOMAIN row = 1..n
  OBVIOUS
<1>2. PICK y \in C : TRUE
  OBVIOUS
<1>3. d[y] + 1 \in hits
  OBVIOUS
<1>4. PICK m \in hits : \A i \in hits : m <= i
  <2>1. \A i \in 1..n : i = 1 \/ i = 2 \/ i = 3 \/ i = 4 \/ i = 5
    BY UpToFive
  <2>2. \A i \in hits : i = 1 \/ i = 2 \/ i = 3 \/ i = 4 \/ i = 5
    BY <2>1
  <2>3. hits # {}
    BY <1>3
  <2> HIDE DEF hits
  <2>4. CASE 1 \in hits
    BY <2>2, <2>4
  <2>5. CASE 1 \notin hits /\ 2 \in hits
    BY <2>2, <2>5
  <2>6. CASE 1 \notin hits /\ 2 \notin hits /\ 3 \in hits
    BY <2>2, <2>6
  <2>7. CASE 1 \notin hits /\ 2 \notin hits /\ 3 \notin hits /\ 4 \in hits
    BY <2>2, <2>7
  <2>8. CASE 1 \notin hits /\ 2 \notin hits /\ 3 \notin hits /\ 4 \notin hits
    BY <2>2, <2>3, <2>8
  <2> QED  BY <2>4, <2>5, <2>6, <2>7, <2>8
<1>5. Min(hits) = m
  BY <1>4 DEF Min
<1>6. FirstIn(row, C) = row[m]
  BY <1>1, <1>3, <1>5 DEF FirstIn
<1>7. row[m] \in C
  BY <1>4
<1>8. ASSUME NEW z \in C
      PROVE  d[z] + 1 \in hits /\ m <= d[z] + 1
  BY <1>4
<1>9. d[row[m]] = m - 1
  OBVIOUS
<1>10. ASSUME NEW z \in C, z # row[m]
       PROVE  d[row[m]] < d[z]
  <2>1. d[z] \in Int /\ d[row[m]] \in Int /\ m \in Int /\ m <= d[z] + 1
    BY <1>7, <1>8
  <2>2. row[d[z] + 1] = z /\ row[d[row[m]] + 1] = row[m]
    BY <1>7
  <2>3. d[z] # d[row[m]]
    BY <2>2, <1>10
  <2> QED  BY <2>1, <2>3, <1>9
<1> QED  BY <1>6, <1>7, <1>10

\* The distance from a cursor.
LEMMA Around ==
  ASSUME NEW k \in 2..5, NEW x \in 0..(k - 1), NEW n \in 0..(k - 1)
  PROVE  (x - n) % k = IF x >= n THEN x - n ELSE x - n + k
<1>1. CASE k = 2
  BY <1>1
<1>2. CASE k = 3
  BY <1>2
<1>3. CASE k = 4
  BY <1>3
<1>4. CASE k = 5
  BY <1>4
<1> QED  BY <1>1, <1>2, <1>3, <1>4

\* The n members X stand in the row in the order of their distances.
Ordered(n, X, row, d) ==
  /\ row \in [1..n -> X] /\ d \in [X -> 0..(n - 1)]
  /\ \A x \in X : row[d[x] + 1] = x
  /\ \A i \in 1..n : d[row[i]] = i - 1

\* Going round from c by the distance of x comes back to x.
LEMMA BackAtIt ==
  ASSUME NEW n \in Int, NEW b \in Int, NEW c \in Int, NEW x \in Int, NEW e \in Int,
         b <= x, x <= b + n - 1,
         e = IF x - b >= c THEN x - b - c ELSE x - b - c + n
  PROVE  b + (IF c + e >= n THEN c + e - n ELSE c + e) = x
<1>1. CASE x - b >= c
  <2>1. e = x - b - c
    BY <1>1
  <2>2. ~ (c + e >= n)
    BY <2>1
  <2> QED  BY <2>1, <2>2
<1>2. CASE ~ (x - b >= c)
  <2>1. e = x - b - c + n
    BY <1>2
  <2>2. c + e >= n
    BY <2>1
  <2> QED  BY <2>1, <2>2
<1> QED  BY <1>1, <1>2

\* The row begins at the cursor c and goes round the n members from b on.
GoesRound(n, b, c, row) ==
  /\ row = [i \in 1..n |-> row[i]]
  /\ \A i \in 1..n : row[i] = b + (IF c + i - 1 >= n THEN c + i - 1 - n ELSE c + i - 1)

Members(n, b) == b..(b + n - 1)
Distances(n, b, c) == [x \in Members(n, b) |-> (x - b - c) % n]

\* Then they do.
LEMMA RowIs ==
  ASSUME NEW n \in 2..5, NEW b \in Nat, NEW c \in 0..(n - 1),
         NEW row, GoesRound(n, b, c, row)
  PROVE  Ordered(n, Members(n, b), row, Distances(n, b, c))
<1> DEFINE X == Members(n, b)
           d == Distances(n, b, c)
<1>1. n \in Int /\ b \in Int /\ c \in Int /\ 0 <= c /\ c < n
  OBVIOUS
<1>2. \A x \in X : /\ x \in Int /\ b <= x /\ x <= b + n - 1
                   /\ d[x] = IF x - b >= c THEN x - b - c ELSE x - b - c + n
  BY Around DEF Members, Distances
<1>3. d = [x \in X |-> d[x]]
  BY DEF Distances
<1>4. /\ row = [i \in 1..n |-> row[i]]
      /\ \A i \in 1..n : row[i] = b + (IF c + i - 1 >= n THEN c + i - 1 - n ELSE c + i - 1)
  BY DEF GoesRound
<1>5. \A x : x \in Int /\ b <= x /\ x <= b + n - 1 => x \in X
  BY <1>1 DEF Members
<1> HIDE DEF X, d
<1>6. \A x \in X : d[x] \in 0..(n - 1)
  BY <1>1, <1>2
<1>7. ASSUME NEW x \in X
      PROVE  row[d[x] + 1] = x
  <2> DEFINE e == d[x]
             i == d[x] + 1
  <2>1. i \in 1..n /\ e \in Int /\ i = e + 1 /\ i - 1 = e
    BY <1>1, <1>6
  <2>2. x \in Int /\ b <= x /\ x <= b + n - 1
        /\ e = IF x - b >= c THEN x - b - c ELSE x - b - c + n
    BY <1>2
  <2> HIDE DEF e, i
  <2>3. row[i] = b + (IF c + i - 1 >= n THEN c + i - 1 - n ELSE c + i - 1)
    BY <1>4, <2>1
  <2>4. c + i - 1 = c + e
    BY <1>1, <2>1
  <2>5. row[i] = b + (IF c + e >= n THEN c + e - n ELSE c + e)
    BY <1>1, <2>1, <2>3, <2>4
  <2>6. b + (IF c + e >= n THEN c + e - n ELSE c + e) = x
    BY <1>1, <2>1, <2>2, BackAtIt
  <2> QED  BY <2>5, <2>6 DEF i
<1>8. ASSUME NEW i \in 1..n
      PROVE  row[i] \in X /\ d[row[i]] = i - 1
  <2> DEFINE x == row[i]
  <2>1. i \in Int /\ 1 <= i /\ i <= n
    BY <1>1
  <2>2. x = b + (IF c + i - 1 >= n THEN c + i - 1 - n ELSE c + i - 1)
    BY <1>4
  <2> HIDE DEF x
  <2>3. CASE c + i - 1 >= n
    <3>1. x = b + c + i - 1 - n
      BY <1>1, <2>1, <2>2, <2>3
    <3>2. x \in Int /\ b <= x /\ x <= b + n - 1 /\ ~ (x - b >= c)
      BY <1>1, <2>1, <2>3, <3>1
    <3>3. x \in X
      BY <1>5, <3>2
    <3>4. d[x] = x - b - c + n
      BY <1>2, <3>2, <3>3
    <3>5. x - b - c + n = i - 1
      BY <1>1, <2>1, <3>1
    <3> QED  BY <3>3, <3>4, <3>5 DEF x
  <2>4. CASE ~ (c + i - 1 >= n)
    <3>1. x = b + c + i - 1
      BY <1>1, <2>1, <2>2, <2>4
    <3>2. x \in Int /\ b <= x /\ x <= b + n - 1 /\ x - b >= c
      BY <1>1, <2>1, <2>4, <3>1
    <3>3. x \in X
      BY <1>5, <3>2
    <3>4. d[x] = x - b - c
      BY <1>2, <3>2, <3>3
    <3>5. x - b - c = i - 1
      BY <1>1, <2>1, <3>1
    <3> QED  BY <3>3, <3>4, <3>5 DEF x
  <2> QED  BY <2>3, <2>4
<1>9. row \in [1..n -> X] /\ d \in [X -> 0..(n - 1)]
  BY <1>3, <1>4, <1>6, <1>8
<1>10. Ordered(n, X, row, d)
  BY <1>7, <1>8, <1>9 DEF Ordered
<1> QED  BY <1>10 DEF X, d

\* So it is in each of the tables.
LEMMA GroupRow ==
  ASSUME NEW c \in 0..2
  PROVE  Ordered(3, Members(3, 0), GroupOrder[c + 1], Distances(3, 0, c))
<1> DEFINE row == GroupOrder[c + 1]
<1>1. c = 0 => row = <<0, 1, 2>>
  BY DEF GroupOrder
<1>2. c = 1 => row = <<1, 2, 0>>
  BY DEF GroupOrder
<1>3. c = 2 => row = <<2, 0, 1>>
  BY DEF GroupOrder
<1> HIDE DEF row
<1>4. row = [i \in 1..3 |-> row[i]]
  BY <1>1, <1>2, <1>3
<1>5. ASSUME NEW i \in 1..3
      PROVE  row[i] = 0 + (IF c + i - 1 >= 3 THEN c + i - 1 - 3 ELSE c + i - 1)
  <2>1. i = 1 \/ i = 2 \/ i = 3
    OBVIOUS
  <2>2. CASE c = 0
    BY <2>2, <1>1, <2>1
  <2>3. CASE c = 1
    BY <2>3, <1>2, <2>1
  <2>4. CASE c = 2
    BY <2>4, <1>3, <2>1
  <2> QED  BY <2>2, <2>3, <2>4
<1>6. GoesRound(3, 0, c, row)
  BY <1>4, <1>5 DEF GoesRound
<1>7. 3 \in 2..5 /\ 0 \in Nat /\ c \in 0..(3 - 1)
  OBVIOUS
<1>8. Ordered(3, Members(3, 0), row, Distances(3, 0, c))
  BY <1>6, <1>7, RowIs
<1> QED  BY <1>8 DEF row

\* The basic messages.
LEMMA BasicRow ==
  ASSUME NEW c \in 0..4
  PROVE  Ordered(5, Members(5, 0), BasicOrder[c + 1], Distances(5, 0, c))
<1> DEFINE row == BasicOrder[c + 1]
<1>1. c = 0 => row = <<0, 1, 2, 3, 4>>
  BY DEF BasicOrder
<1>2. c = 1 => row = <<1, 2, 3, 4, 0>>
  BY DEF BasicOrder
<1>3. c = 2 => row = <<2, 3, 4, 0, 1>>
  BY DEF BasicOrder
<1>4. c = 3 => row = <<3, 4, 0, 1, 2>>
  BY DEF BasicOrder
<1>5. c = 4 => row = <<4, 0, 1, 2, 3>>
  BY DEF BasicOrder
<1> HIDE DEF row
<1>6. row = [i \in 1..5 |-> row[i]]
  BY <1>1, <1>2, <1>3, <1>4, <1>5
<1>7. ASSUME NEW i \in 1..5
      PROVE  row[i] = 0 + (IF c + i - 1 >= 5 THEN c + i - 1 - 5 ELSE c + i - 1)
  <2>1. i = 1 \/ i = 2 \/ i = 3 \/ i = 4 \/ i = 5
    OBVIOUS
  <2>2. CASE c = 0
    BY <2>2, <1>1, <2>1
  <2>3. CASE c = 1
    BY <2>3, <1>2, <2>1
  <2>4. CASE c = 2
    BY <2>4, <1>3, <2>1
  <2>5. CASE c = 3
    BY <2>5, <1>4, <2>1
  <2>6. CASE c = 4
    BY <2>6, <1>5, <2>1
  <2> QED  BY <2>2, <2>3, <2>4, <2>5, <2>6
<1>8. GoesRound(5, 0, c, row)
  BY <1>6, <1>7 DEF GoesRound
<1>9. 5 \in 2..5 /\ 0 \in Nat /\ c \in 0..(5 - 1)
  OBVIOUS
<1>10. Ordered(5, Members(5, 0), row, Distances(5, 0, c))
  BY <1>8, <1>9, RowIs
<1> QED  BY <1>10 DEF row

\* The control messages.
LEMMA ControlRow ==
  ASSUME NEW c \in 0..1
  PROVE  Ordered(2, Members(2, 5), ControlOrder[c + 1], Distances(2, 5, c))
<1> DEFINE row == ControlOrder[c + 1]
<1>1. c = 0 => row = <<5, 6>>
  BY DEF ControlOrder
<1>2. c = 1 => row = <<6, 5>>
  BY DEF ControlOrder
<1> HIDE DEF row
<1>3. row = [i \in 1..2 |-> row[i]]
  BY <1>1, <1>2
<1>4. ASSUME NEW i \in 1..2
      PROVE  row[i] = 5 + (IF c + i - 1 >= 2 THEN c + i - 1 - 2 ELSE c + i - 1)
  <2>1. i = 1 \/ i = 2
    OBVIOUS
  <2>2. CASE c = 0
    BY <2>2, <1>1, <2>1
  <2>3. CASE c = 1
    BY <2>3, <1>2, <2>1
  <2> QED  BY <2>2, <2>3
<1>5. GoesRound(2, 5, c, row)
  BY <1>3, <1>4 DEF GoesRound
<1>6. 2 \in 2..5 /\ 5 \in Nat /\ c \in 0..(2 - 1)
  OBVIOUS
<1>7. Ordered(2, Members(2, 5), row, Distances(2, 5, c))
  BY <1>5, <1>6, RowIs
<1> QED  BY <1>7 DEF row

\* The UART messages.
LEMMA UartRow ==
  ASSUME NEW c \in 0..3
  PROVE  Ordered(4, Members(4, 7), UartOrder[c + 1], Distances(4, 7, c))
<1> DEFINE row == UartOrder[c + 1]
<1>1. c = 0 => row = <<7, 8, 9, 10>>
  BY DEF UartOrder
<1>2. c = 1 => row = <<8, 9, 10, 7>>
  BY DEF UartOrder
<1>3. c = 2 => row = <<9, 10, 7, 8>>
  BY DEF UartOrder
<1>4. c = 3 => row = <<10, 7, 8, 9>>
  BY DEF UartOrder
<1> HIDE DEF row
<1>5. row = [i \in 1..4 |-> row[i]]
  BY <1>1, <1>2, <1>3, <1>4
<1>6. ASSUME NEW i \in 1..4
      PROVE  row[i] = 7 + (IF c + i - 1 >= 4 THEN c + i - 1 - 4 ELSE c + i - 1)
  <2>1. i = 1 \/ i = 2 \/ i = 3 \/ i = 4
    OBVIOUS
  <2>2. CASE c = 0
    BY <2>2, <1>1, <2>1
  <2>3. CASE c = 1
    BY <2>3, <1>2, <2>1
  <2>4. CASE c = 2
    BY <2>4, <1>3, <2>1
  <2>5. CASE c = 3
    BY <2>5, <1>4, <2>1
  <2> QED  BY <2>2, <2>3, <2>4, <2>5
<1>7. GoesRound(4, 7, c, row)
  BY <1>5, <1>6 DEF GoesRound
<1>8. 4 \in 2..5 /\ 7 \in Nat /\ c \in 0..(4 - 1)
  OBVIOUS
<1>9. Ordered(4, Members(4, 7), row, Distances(4, 7, c))
  BY <1>7, <1>8, RowIs
<1> QED  BY <1>9 DEF row

Arbiters == [queues : [Sources -> Seq(Nat)], group_next : 0..2, local_next : [Groups -> Nat],
             active : {NoneActive, Transport}, word_index : Nat]

\* An arbiter, field by field.
LEMMA ArbiterFields ==
  ASSUME NEW a \in Arbiters
  PROVE  a = [queues |-> a.queues, group_next |-> a.group_next, local_next |-> a.local_next,
              active |-> a.active, word_index |-> a.word_index]
BY DEF Arbiters

\* The cursors point at members of their groups.  A transport that has the
\* channel is at the head of its queue, begun and not at its end.
ArbiterOK(a) ==
  /\ a \in Arbiters
  /\ \A s \in Sources : a.queues[s] \in Seq(Lengths(s))
  /\ \A g \in Groups : a.local_next[g] \in 0..(Size[g] - 1)
  /\ a.active = NoneActive => a.word_index = 0
  /\ a.active = Transport => /\ a.queues[Transport] # << >> /\ a.word_index # 0
                             /\ a.word_index < Head(a.queues[Transport])

\* The table in which a group stands, from its cursor on.
RowOf(a, g) == IF g = 0 THEN BasicOrder[a.local_next[0] + 1]
               ELSE IF g = 1 THEN ControlOrder[a.local_next[1] + 1]
               ELSE UartOrder[a.local_next[2] + 1]

LEMMA FirstAndSize ==
  /\ First[0] = 0 /\ First[1] = 5 /\ First[2] = 7
  /\ Size[0] = 5 /\ Size[1] = 2 /\ Size[2] = 4
BY DEF First, Size, Groups

LEMMA RowOfOrdered ==
  ASSUME NEW a, ArbiterOK(a), NEW g \in Groups
  PROVE  Ordered(Size[g], Members(Size[g], First[g]), RowOf(a, g),
                 Distances(Size[g], First[g], a.local_next[g]))
<1>1. a.local_next[g] \in 0..(Size[g] - 1)
  BY DEF ArbiterOK, Arbiters
<1>2. CASE g = 0
  <2>1. a.local_next[0] \in 0..4
    BY <1>1, <1>2, FirstAndSize
  <2> QED  BY <2>1, <1>2, FirstAndSize, BasicRow DEF RowOf
<1>3. CASE g = 1
  <2>1. a.local_next[1] \in 0..1
    BY <1>1, <1>3, FirstAndSize
  <2> QED  BY <2>1, <1>3, FirstAndSize, ControlRow DEF RowOf
<1>4. CASE g = 2
  <2>1. a.local_next[2] \in 0..3
    BY <1>1, <1>4, FirstAndSize
  <2> QED  BY <2>1, <1>4, FirstAndSize, UartRow DEF RowOf
<1> QED  BY <1>2, <1>3, <1>4 DEF Groups

\* s is the nearest of the candidates C among the members X.
Nearest(s, C, X, d) ==
  /\ s \in C \cap X
  /\ \A y \in C \cap X : y # s => d[s] < d[y]

LEMMA FirstOfRow ==
  ASSUME NEW n \in 1..5, NEW X, NEW row, NEW d, Ordered(n, X, row, d),
         NEW C, C \cap X # {}
  PROVE  Nearest(FirstIn(row, C), C, X, d)
<1> DEFINE D == C \cap X
<1>1. row \in [1..n -> X] /\ d \in [X -> 0..(n - 1)]
      /\ (\A x \in X : row[d[x] + 1] = x) /\ \A i \in 1..n : d[row[i]] = i - 1
  BY DEF Ordered
<1>2. {i \in DOMAIN row : row[i] \in C} = {i \in DOMAIN row : row[i] \in D}
  BY <1>1
<1>3. FirstIn(row, C) = FirstIn(row, D)
  BY <1>2 DEF FirstIn
<1>4. D \in SUBSET X /\ D # {}
  OBVIOUS
<1> HIDE DEF D
<1>5. /\ FirstIn(row, D) \in D
      /\ \A y \in D : y # FirstIn(row, D) => d[FirstIn(row, D)] < d[y]
  BY <1>1, <1>4, FirstIsNearest
<1> QED  BY <1>3, <1>5 DEF Nearest, D

\* The distances of the reference are those of the rows.
LEMMA DistancesAre ==
  ASSUME NEW a, ArbiterOK(a), NEW s \in Sources
  PROVE  /\ GroupOf(s) \in Groups /\ GroupOf(s) \in Members(3, 0)
         /\ s \in Members(Size[GroupOf(s)], First[GroupOf(s)])
         /\ GroupDistance(a, s) = Distances(3, 0, a.group_next)[GroupOf(s)]
         /\ LocalDistance(a, s)
              = Distances(Size[GroupOf(s)], First[GroupOf(s)], a.local_next[GroupOf(s)])[s]
<1> DEFINE g == GroupOf(s)
<1>1. g \in Groups /\ g = (IF s < 5 THEN 0 ELSE IF s < 7 THEN 1 ELSE 2)
  BY GroupsAre
<1>2. s \in Members(Size[g], First[g])
  BY <1>1, FirstAndSize DEF Members, Sources
<1>3. g \in Members(3, 0)
  BY <1>1 DEF Members, Groups
<1>4. a.group_next \in 0..2 /\ a.local_next[g] \in Int /\ First[g] \in Int
  BY <1>1, FirstAndSize DEF ArbiterOK, Arbiters, Groups
<1>5. GroupDistance(a, s) = Distances(3, 0, a.group_next)[g]
  BY <1>1, <1>3, <1>4 DEF GroupDistance, Distances, Groups
<1>6. LocalDistance(a, s) = Distances(Size[g], First[g], a.local_next[g])[s]
  BY <1>2 DEF LocalDistance, Distances, Local
<1> QED  BY <1>1, <1>2, <1>3, <1>5, <1>6

\* The groups that have a candidate.
GroupsOf(P) == {g \in Groups : \E s \in P : GroupOf(s) = g}

TableGroup(a, P) == FirstIn(GroupOrder[a.group_next + 1], GroupsOf(P))
TableSource(a, P) == FirstIn(RowOf(a, TableGroup(a, P)), P)

\* Looking the group up in its table, and then the source in the table of the
\* group, finds the source the reference selects.
TablesSelect(a, P) ==
  /\ TableGroup(a, P) \in Groups
  /\ TableSource(a, P) \in P /\ GroupOf(TableSource(a, P)) = TableGroup(a, P)
  /\ Select(a, P) = TableSource(a, P)

LEMMA SelectByTables ==
  ASSUME NEW a, ArbiterOK(a), NEW P \in SUBSET Sources, P # {}
  PROVE  TablesSelect(a, P)
<1> DEFINE g == TableGroup(a, P)
           s == TableSource(a, P)
           dg == Distances(3, 0, a.group_next)
           dl == Distances(Size[g], First[g], a.local_next[g])
<1>1. a.group_next \in 0..2
  BY DEF ArbiterOK, Arbiters
<1>2. Ordered(3, Members(3, 0), GroupOrder[a.group_next + 1], dg)
  BY <1>1, GroupRow
<1>3. \A t \in P : GroupOf(t) \in GroupsOf(P) \cap Members(3, 0)
  BY DistancesAre DEF GroupsOf
<1>4. GroupsOf(P) \cap Members(3, 0) # {}
  BY <1>3
<1>5. 3 \in 1..5
  OBVIOUS
<1>6. Nearest(g, GroupsOf(P), Members(3, 0), dg)
  BY <1>2, <1>4, <1>5, FirstOfRow DEF TableGroup
<1>7. PICK t \in P : GroupOf(t) = g
  BY <1>6 DEF Nearest, GroupsOf
<1>8. g \in Groups
  BY <1>6 DEF Nearest, GroupsOf
<1>9. Ordered(Size[g], Members(Size[g], First[g]), RowOf(a, g), dl)
  BY <1>8, RowOfOrdered
<1>10. P \cap Members(Size[g], First[g]) # {}
  BY <1>7, DistancesAre
<1>11. Size[g] \in 1..5
  BY <1>8, FirstAndSize DEF Groups
<1>12. Nearest(s, P, Members(Size[g], First[g]), dl)
  <2> HIDE DEF dl
  <2>1. Nearest(FirstIn(RowOf(a, g), P), P, Members(Size[g], First[g]), dl)
    <3> HIDE DEF g
    <3> QED  BY <1>9, <1>10, <1>11, FirstOfRow
  <2> QED  BY <2>1 DEF TableSource
<1>13. s \in P /\ s \in Sources
  BY <1>12 DEF Nearest
<1>14. GroupOf(s) = g
  <2>1. s \in Members(Size[g], First[g])
    BY <1>12 DEF Nearest
  <2>2. GroupOf(s) = (IF s < 5 THEN 0 ELSE IF s < 7 THEN 1 ELSE 2)
    BY <1>13, GroupsAre
  <2> HIDE DEF s, g
  <2> QED  BY <1>8, <1>13, <2>1, <2>2, FirstAndSize DEF Members, Groups, Sources
<1> HIDE DEF g, s, dg, dl
<1>15. GroupDistance(a, s) = dg[g] /\ LocalDistance(a, s) = dl[s]
  BY <1>13, <1>14, DistancesAre DEF dg, dl
<1>16. ASSUME NEW q \in P, q # s
       PROVE  Precedes(a, s, q)
  <2>1. /\ GroupOf(q) \in GroupsOf(P) \cap Members(3, 0)
        /\ GroupDistance(a, q) = dg[GroupOf(q)]
    BY <1>3, DistancesAre DEF dg
  <2>2. CASE GroupOf(q) # g
    <3>1. dg[g] < dg[GroupOf(q)]
      BY <1>6, <2>1, <2>2 DEF Nearest
    <3> QED  BY <1>15, <2>1, <3>1 DEF Precedes
  <2>3. CASE GroupOf(q) = g
    <3>1. LocalDistance(a, q) = dl[q] /\ q \in Members(Size[g], First[g])
      BY <2>3, DistancesAre DEF dl
    <3>2. dl[s] < dl[q]
      BY <1>12, <1>16, <3>1 DEF Nearest
    <3> QED  BY <1>15, <2>1, <2>3, <3>1, <3>2 DEF Precedes
  <2> QED  BY <2>2, <2>3
<1>17. ASSUME NEW q \in P, \A u \in P \ {q} : Precedes(a, q, u)
       PROVE  q = s
  <2>1. SUFFICES ASSUME q # s  PROVE FALSE
    OBVIOUS
  <2>2. Precedes(a, q, s) /\ Precedes(a, s, q)
    BY <1>13, <1>16, <1>17, <2>1
  <2>3. /\ GroupDistance(a, s) \in Int /\ GroupDistance(a, q) \in Int
        /\ LocalDistance(a, s) \in Int /\ LocalDistance(a, q) \in Int
    <3>1. ASSUME NEW u \in Sources
          PROVE  GroupDistance(a, u) \in Int /\ LocalDistance(a, u) \in Int
      <4>1. /\ GroupOf(u) \in Groups /\ Local(u) \in Int
            /\ Size[GroupOf(u)] \in Nat \ {0}
        BY GroupsAre, FirstAndSize DEF Groups
      <4>2. a.local_next[GroupOf(u)] \in Int
        BY <4>1 DEF ArbiterOK, Arbiters
      <4> QED  BY <1>1, <4>1, <4>2 DEF GroupDistance, LocalDistance, Groups
    <3> QED  BY <1>13, <3>1
  <2> QED  BY <2>2, <2>3 DEF Precedes
<1>18. Select(a, P) = s
  BY <1>13, <1>16, <1>17 DEF Select
<1> QED  BY <1>8, <1>13, <1>14, <1>18 DEF TablesSelect, g, s

\* The cursors once the message of s is complete.
CursorsBehind(a, s, b) ==
  /\ b.group_next = (IF GroupOf(s) = 2 THEN 0 ELSE GroupOf(s) + 1)
  /\ b.local_next[0] = (IF GroupOf(s) = 0 THEN (IF s = 4 THEN 0 ELSE s + 1) ELSE a.local_next[0])
  /\ b.local_next[1] = (IF GroupOf(s) = 1 THEN (IF s = 5 THEN 1 ELSE 0) ELSE a.local_next[1])
  /\ b.local_next[2] = (IF GroupOf(s) = 2 THEN (IF s = 10 THEN 0 ELSE s - 6) ELSE a.local_next[2])
  /\ b.active = NoneActive /\ b.word_index = 0

\* What a step changes in the arbiter.
CompletesTo(a, s, b) ==
         /\ b.queues = [a.queues EXCEPT ![s] = Tail(@)]
         /\ b.group_next = (GroupOf(s) + 1) % 3
         /\ b.local_next = [a.local_next EXCEPT ![GroupOf(s)] = (Local(s) + 1) % Size[GroupOf(s)]]
         /\ b.active = NoneActive /\ b.word_index = 0
         /\ b.queues \in [Sources -> Seq(Nat)] /\ b.group_next \in 0..2
              /\ b.local_next \in [Groups -> Nat] => b \in Arbiters

LEMMA CompletedFields ==
  ASSUME NEW a \in Arbiters, NEW s
  PROVE  CompletesTo(a, s, Completed(a, s))
BY DEF Arbiters, Completed, TurnsMoved, CompletesTo

LEMMA CancelledFields ==
  ASSUME NEW a \in Arbiters, NEW b, b = Cancelled(a)
  PROVE  /\ b.queues = [a.queues EXCEPT ![Transport] = << >>]
         /\ b.group_next = a.group_next /\ b.local_next = a.local_next
         /\ b.active = NoneActive /\ b.word_index = 0
         /\ b.queues \in [Sources -> Seq(Nat)] => b \in Arbiters
BY DEF Arbiters, Cancelled

BeginsTo(a, w, b) ==
         /\ b \in Arbiters /\ b.queues = a.queues
         /\ b.group_next = a.group_next /\ b.local_next = a.local_next
         /\ b.active = Transport /\ b.word_index = w

LEMMA BegunFields ==
  ASSUME NEW a \in Arbiters, NEW w \in Nat
  PROVE  BeginsTo(a, w, [a EXCEPT !.active = Transport, !.word_index = w])
BY DEF Arbiters, BeginsTo

\* Field by field.
LEMMA ArbiterTypes ==
  ASSUME NEW a, ArbiterOK(a)
  PROVE  /\ a \in Arbiters /\ a.queues \in [Sources -> Seq(Nat)] /\ a.group_next \in 0..2
         /\ a.local_next \in [Groups -> Nat] /\ a.active \in {NoneActive, Transport}
         /\ a.word_index \in Nat
         /\ \A t \in Sources : a.queues[t] \in Seq(Lengths(t))
         /\ \A h \in Groups : a.local_next[h] \in 0..(Size[h] - 1)
         /\ a.active = NoneActive => a.word_index = 0
         /\ a.active = Transport => /\ a.queues[Transport] # << >> /\ a.word_index # 0
                                    /\ a.word_index < Head(a.queues[Transport])
BY DEF ArbiterOK, Arbiters

LEMMA CompletedIs ==
  ASSUME NEW a, ArbiterOK(a), NEW s \in Sources, a.queues[s] # << >>
  PROVE  CursorsBehind(a, s, Completed(a, s)) /\ ArbiterOK(Completed(a, s))
<1> DEFINE g == GroupOf(s)
           to == (Local(s) + 1) % Size[g]
           b == Completed(a, s)
<1>1. /\ a \in Arbiters /\ a.queues \in [Sources -> Seq(Nat)] /\ a.local_next \in [Groups -> Nat]
      /\ \A t \in Sources : a.queues[t] \in Seq(Lengths(t))
      /\ \A h \in Groups : a.local_next[h] \in 0..(Size[h] - 1)
  BY ArbiterTypes
<1>2. /\ b.group_next = (g + 1) % 3 /\ b.active = NoneActive /\ b.word_index = 0
      /\ b.local_next = [a.local_next EXCEPT ![g] = to]
      /\ b.queues = [a.queues EXCEPT ![s] = Tail(@)]
      /\ b.queues \in [Sources -> Seq(Nat)] /\ b.group_next \in 0..2
           /\ b.local_next \in [Groups -> Nat] => b \in Arbiters
  <2>1. CompletesTo(a, s, Completed(a, s))
    BY <1>1, CompletedFields
  <2> QED  BY <2>1 DEF CompletesTo
<1>3. /\ g \in Groups /\ g = (IF s < 5 THEN 0 ELSE IF s < 7 THEN 1 ELSE 2)
      /\ Local(s) = (IF s < 5 THEN s ELSE IF s < 7 THEN s - 5 ELSE s - 7)
  BY GroupsAre
<1>4. /\ g = 0 => to = (IF s = 4 THEN 0 ELSE s + 1)
      /\ g = 1 => to = (IF s = 5 THEN 1 ELSE 0)
      /\ g = 2 => to = (IF s = 10 THEN 0 ELSE s - 6)
      /\ to \in 0..(Size[g] - 1) /\ to \in Nat
  <2> USE DEF Sources
  <2>1. CASE g = 0
    BY <1>3, <2>1, FirstAndSize
  <2>2. CASE g = 1
    BY <1>3, <2>2, FirstAndSize
  <2>3. CASE g = 2
    BY <1>3, <2>3, FirstAndSize
  <2> QED  BY <1>3, <2>1, <2>2, <2>3 DEF Groups
<1>5. (g + 1) % 3 = (IF g = 2 THEN 0 ELSE g + 1) /\ (g + 1) % 3 \in 0..2
  BY <1>3 DEF Groups
<1> HIDE DEF g, to, b
<1>6. /\ b.group_next = (g + 1) % 3 /\ b.active = NoneActive /\ b.word_index = 0
      /\ b.local_next = [a.local_next EXCEPT ![g] = to]
      /\ b.queues = [a.queues EXCEPT ![s] = Tail(@)]
  BY <1>2
<1>7. \A h \in Groups : b.local_next[h] = IF h = g THEN to ELSE a.local_next[h]
  BY <1>1, <1>6
<1>8. CursorsBehind(a, s, b)
  <2>1. 0 \in Groups /\ 1 \in Groups /\ 2 \in Groups
    BY DEF Groups
  <2>2. /\ b.local_next[0] = IF 0 = g THEN to ELSE a.local_next[0]
        /\ b.local_next[1] = IF 1 = g THEN to ELSE a.local_next[1]
        /\ b.local_next[2] = IF 2 = g THEN to ELSE a.local_next[2]
    BY <1>7, <2>1
  <2> QED  BY <1>4, <1>5, <1>6, <2>2 DEF CursorsBehind, g
<1>9. b.queues \in [Sources -> Seq(Nat)] /\ \A t \in Sources : b.queues[t] \in Seq(Lengths(t))
  <2>1. ASSUME NEW t \in Sources
        PROVE  b.queues[t] \in Seq(Lengths(t)) /\ b.queues[t] \in Seq(Nat)
    <3>1. CASE t = s
      <4>1. b.queues[t] = Tail(a.queues[t])
        BY <1>1, <1>6, <3>1
      <4> QED  BY <1>1, <3>1, <4>1, HeadTailProperties
    <3>2. CASE t # s
      BY <1>1, <1>6, <3>2
    <3> QED  BY <3>1, <3>2
  <2>2. b.queues = [t \in Sources |-> b.queues[t]]
    BY <1>1, <1>6
  <2> QED  BY <2>1, <2>2
<1>10. b.local_next \in [Groups -> Nat] /\ \A h \in Groups : b.local_next[h] \in 0..(Size[h] - 1)
  <2>1. b.local_next = [h \in Groups |-> b.local_next[h]]
    BY <1>1, <1>6
  <2>2. \A h \in Groups : b.local_next[h] \in 0..(Size[h] - 1) /\ b.local_next[h] \in Nat
    BY <1>1, <1>4, <1>7
  <2> QED  BY <2>1, <2>2
<1>11. b \in Arbiters
  BY <1>2, <1>5, <1>6, <1>9, <1>10
<1>12. ArbiterOK(b)
  BY <1>6, <1>9, <1>10, <1>11 DEF ArbiterOK, NoneActive, Transport
<1> QED  BY <1>8, <1>12 DEF b

\* Who wins, and whether its word is the last of its message.
WinnerIs(a) ==
  /\ Winner(a) \in PendingSources(a)
  /\ a.active = Transport => Winner(a) = Transport
  /\ a.active = NoneActive => /\ TablesSelect(a, PendingSources(a))
                              /\ Winner(a) = TableSource(a, PendingSources(a))
                              /\ IsLast(a, Winner(a)) <=> Winner(a) # Transport

LEMMA WinnerFound ==
  ASSUME NEW a, ArbiterOK(a), PendingSources(a) # {}
  PROVE  WinnerIs(a)
<1>1. PendingSources(a) \in SUBSET Sources
  BY DEF PendingSources
<1>2. CASE a.active = Transport
  BY <1>2 DEF WinnerIs, Winner, ArbiterOK, NoneActive, Transport, PendingSources, Sources
<1>3. CASE a.active = NoneActive
  <2> DEFINE s == Winner(a)
  <2>1. TablesSelect(a, PendingSources(a))
    BY <1>1, SelectByTables
  <2>2. s = TableSource(a, PendingSources(a)) /\ s \in PendingSources(a)
    BY <1>3, <2>1 DEF Winner, TablesSelect
  <2> HIDE DEF s
  <2>3. a.word_index = 0 /\ s \in Sources /\ a.queues[s] # << >> /\ a.queues[s] \in Seq(Lengths(s))
    BY <1>3, <2>2 DEF ArbiterOK, PendingSources
  <2>4. Head(a.queues[s]) \in Lengths(s)
    BY <2>3, HeadTailProperties
  <2>7. IsLast(a, s) <=> s # Transport
    <3>1. s = Transport => ~IsLast(a, s)
      BY <2>3, <2>4, MessageArbiterAssumption DEF IsLast, Lengths
    <3>2. s # Transport => IsLast(a, s)
      BY <2>3, <2>4 DEF IsLast, Lengths
    <3> QED  BY <3>1, <3>2
  <2> QED  BY <1>3, <2>1, <2>2, <2>7 DEF WinnerIs, NoneActive, Transport, s
<1> QED  BY <1>2, <1>3, ArbiterTypes

\* A word served.
LEMMA ServedIs ==
  ASSUME NEW a, ArbiterOK(a), PendingSources(a) # {}
  PROVE  /\ ArbiterOK(Served(a))
         /\ IsLast(a, Winner(a)) => CursorsBehind(a, Winner(a), Served(a))
         /\ ~IsLast(a, Winner(a)) =>
              /\ Winner(a) = Transport
              /\ Served(a) = [a EXCEPT !.active = Transport, !.word_index = @ + 1]
<1> DEFINE s == Winner(a)
<1>1. WinnerIs(a)
  BY WinnerFound
<1>2. s \in Sources /\ a.queues[s] # << >>
  BY <1>1 DEF WinnerIs, PendingSources
<1>3. CASE IsLast(a, s)
  BY <1>2, <1>3, CompletedIs DEF Served
<1>4. CASE ~IsLast(a, s)
  <2>1. s = Transport
    BY <1>1, <1>4, ArbiterTypes DEF WinnerIs
  <2> DEFINE b == Served(a)
  <2>2. b = [a EXCEPT !.active = Transport, !.word_index = @ + 1]
    BY <1>4, <2>1 DEF Served
  <2>3. a \in Arbiters /\ a.queues \in [Sources -> Seq(Nat)] /\ a.word_index \in Nat
        /\ a.active \in {NoneActive, Transport}
    BY ArbiterTypes
  <2>4. /\ b \in Arbiters /\ b.queues = a.queues /\ b.local_next = a.local_next
        /\ b.active = Transport /\ b.word_index = a.word_index + 1
    <3>1. a.word_index + 1 \in Nat
      BY <2>3
    <3>2. b = [a EXCEPT !.active = Transport, !.word_index = a.word_index + 1]
      BY <2>2
    <3>3. BeginsTo(a, a.word_index + 1, b)
      BY <2>3, <3>1, <3>2, BegunFields
    <3> QED  BY <3>3 DEF BeginsTo
  <2>5. Head(a.queues[Transport]) \in Nat /\ a.word_index + 1 # Head(a.queues[Transport])
    <3>1. a.queues[Transport] \in Seq(Nat) /\ a.queues[Transport] # << >>
      BY <1>2, <2>1, <2>3 DEF Sources, Transport
    <3> QED  BY <1>4, <2>1, <3>1, HeadTailProperties DEF IsLast
  <2>6. a.word_index + 1 < Head(a.queues[Transport])
    <3>1. CASE a.active = Transport
      BY <2>3, <2>5, <3>1, ArbiterTypes
    <3>2. CASE a.active = NoneActive
      <4>1. a.word_index = 0 /\ a.queues[Transport] \in Seq(Lengths(Transport))
        BY <3>2 DEF ArbiterOK, Sources, Transport
      <4>2. Head(a.queues[Transport]) \in Lengths(Transport)
        BY <1>2, <2>1, <4>1, HeadTailProperties
      <4> QED  BY <2>5, <4>1, <4>2, MessageArbiterAssumption DEF Lengths
    <3> QED  BY <2>3, <3>1, <3>2
  <2> HIDE DEF b
  <2>7. ArbiterOK(b)
    <3>1. /\ \A t \in Sources : a.queues[t] \in Seq(Lengths(t))
          /\ \A h \in Groups : a.local_next[h] \in 0..(Size[h] - 1)
      BY DEF ArbiterOK
    <3>2. Transport # NoneActive /\ a.word_index \in Nat /\ a.word_index + 1 # 0
      BY <2>3 DEF Transport, NoneActive
    <3> QED  BY <1>2, <2>1, <2>4, <2>6, <3>1, <3>2 DEF ArbiterOK
  <2> QED  BY <1>4, <2>1, <2>2, <2>7 DEF b
<1> QED  BY <1>3, <1>4

LEMMA CancelledIs ==
  ASSUME NEW a, ArbiterOK(a)
  PROVE  /\ ArbiterOK(Cancelled(a))
         /\ PendingSources(Cancelled(a)) = PendingSources(a) \ {Transport}
         /\ Cancelled(a).active = NoneActive /\ Cancelled(a).word_index = 0
         /\ Cancelled(a).group_next = a.group_next /\ Cancelled(a).local_next = a.local_next
<1> DEFINE b == Cancelled(a)
<1>1. /\ a \in Arbiters /\ a.queues \in [Sources -> Seq(Nat)]
      /\ \A t \in Sources : a.queues[t] \in Seq(Lengths(t))
      /\ \A h \in Groups : a.local_next[h] \in 0..(Size[h] - 1)
  BY ArbiterTypes
<1>2. /\ b.queues = [a.queues EXCEPT ![Transport] = << >>] /\ b.active = NoneActive
      /\ b.word_index = 0 /\ b.group_next = a.group_next /\ b.local_next = a.local_next
      /\ b.queues \in [Sources -> Seq(Nat)] => b \in Arbiters
  BY <1>1, CancelledFields
<1> HIDE DEF b
<1>3. /\ b.queues = [t \in Sources |-> b.queues[t]]
      /\ \A t \in Sources : b.queues[t] = IF t = Transport THEN << >> ELSE a.queues[t]
  BY <1>1, <1>2
<1>4. \A t \in Sources : b.queues[t] \in Seq(Lengths(t)) /\ b.queues[t] \in Seq(Nat)
  <2>1. \A S : << >> \in Seq(S)
    BY EmptySeq
  <2> QED  BY <1>1, <1>3, <2>1
<1>5. b \in Arbiters
  <2>1. b.queues \in [Sources -> Seq(Nat)]
    BY <1>3, <1>4
  <2> QED  BY <1>2, <2>1
<1>6. ArbiterOK(b)
  BY <1>1, <1>2, <1>4, <1>5 DEF ArbiterOK, NoneActive, Transport
<1>7. PendingSources(b) = PendingSources(a) \ {Transport}
  BY <1>3 DEF PendingSources
<1> QED  BY <1>2, <1>6, <1>7 DEF b

\* The sources the circuit looks among when the channel is free.
MayBeServed(cancel, pending, count) ==
  pending \ (IF count \in 2..MaxWords /\ ~cancel THEN {} ELSE {Transport})

\* Its tables name group g and source s of it.
TablesName(r, E, g, s) ==
  /\ g \in Groups /\ g = FirstIn(GroupOrder[r.group + 1], GroupsOf(E))
  /\ g = 0 => s = FirstIn(BasicOrder[r.basic + 1], E)
  /\ g = 1 => s = FirstIn(ControlOrder[r.control + 1], E)
  /\ g = 2 => s = FirstIn(UartOrder[r.uart + 1], E)

\* Registers that are kept.
KeptRegisters(q, r) ==
  /\ q.group = r.group /\ q.basic = r.basic /\ q.control = r.control /\ q.uart = r.uart

\* Registers that move behind source s of group g.
MovedRegisters(q, r, g, s) ==
  /\ q.group = (IF g = 2 THEN 0 ELSE g + 1)
  /\ q.basic = (IF g = 0 THEN (IF s = 4 THEN 0 ELSE s + 1) ELSE r.basic)
  /\ q.control = (IF g = 1 THEN (IF s = 5 THEN 1 ELSE 0) ELSE r.control)
  /\ q.uart = (IF g = 2 THEN (IF s = 10 THEN 0 ELSE s - 6) ELSE r.uart)

RegisterFields(q) ==
  q = [group |-> q.group, basic |-> q.basic, control |-> q.control, uart |-> q.uart,
       locked |-> q.locked, index |-> q.index, last |-> q.last]

\* An edge that finds the channel free, and serves a source.
FreeEdge(hw, r, cancel, count, g, s) ==
  /\ hw.valid = TRUE /\ hw.source = s /\ hw.index = 0 /\ hw.last = (s # Transport)
  /\ IF s # Transport THEN MovedRegisters(hw.registers, r, g, s)
     ELSE KeptRegisters(hw.registers, r)
  /\ hw.registers.locked = (~cancel /\ s = Transport)
  /\ hw.registers.index = (IF cancel THEN 0 ELSE IF s = Transport THEN 1 ELSE r.index)
  /\ hw.registers.last = (IF cancel THEN 0 ELSE IF s = Transport THEN count - 1 ELSE r.last)

\* An edge that finds the channel free, and serves none.
IdleEdge(hw, r, cancel) ==
  /\ hw.valid = FALSE
  /\ KeptRegisters(hw.registers, r)
  /\ hw.registers.locked = FALSE
  /\ hw.registers.index = (IF cancel THEN 0 ELSE r.index)
  /\ hw.registers.last = (IF cancel THEN 0 ELSE r.last)

\* An edge within a transport.
LockedEdge(hw, r, available) ==
  /\ hw.valid = available
  /\ available => hw.source = Transport /\ hw.index = r.index /\ hw.last = (r.index = r.last)
  /\ IF available /\ r.index = r.last THEN MovedRegisters(hw.registers, r, 2, Transport)
     ELSE KeptRegisters(hw.registers, r)
  /\ hw.registers.locked = ~(available /\ r.index = r.last)
  /\ hw.registers.index = (IF available THEN (IF r.index = r.last THEN 0 ELSE r.index + 1)
                           ELSE r.index)
  /\ hw.registers.last = r.last

LEMMA CircuitFields ==
  ASSUME NEW r, NEW cancel, NEW available, NEW pending, NEW count
  PROVE  RegisterFields(HwArbiter(r, cancel, available, pending, count).registers)
BY DEF HwArbiter, RegisterFields

LEMMA FreeChannel ==
  ASSUME NEW r, NEW cancel \in BOOLEAN, NEW available \in BOOLEAN, NEW pending, NEW count,
         NEW E, E = MayBeServed(cancel, pending, count), NEW g, NEW s, TablesName(r, E, g, s),
         r.locked \in BOOLEAN, ~(r.locked /\ ~cancel), available /\ E # {}
  PROVE  FreeEdge(HwArbiter(r, cancel, available, pending, count), r, cancel, count, g, s)
<1> DEFINE hw == HwArbiter(r, cancel, available, pending, count)
           q == hw.registers
<1>2. pending \ (IF count \in 2..MaxWords /\ ~cancel THEN {} ELSE {Transport}) = E
  BY DEF MayBeServed
<1>3. FirstIn(GroupOrder[r.group + 1], {h \in Groups : \E t \in E : GroupOf(t) = h}) = g
  BY DEF GroupsOf, TablesName
<1>4. (r.locked /\ ~cancel) = FALSE
  OBVIOUS
<1>5. NextSource(r, g, E, r.locked /\ ~cancel) = s
  BY <1>4 DEF TablesName, Groups, NextSource
<1>6. (available /\ (IF r.locked /\ ~cancel THEN Transport \in pending ELSE E # {})) = TRUE
  BY <1>4
<1> HIDE DEF MayBeServed, TablesName
<1>11. hw.valid = TRUE
  BY <1>2, <1>4, <1>6 DEF HwArbiter
<1>12. hw.source = s
  BY <1>2, <1>3, <1>4, <1>5, <1>6 DEF HwArbiter
<1>13. hw.index = 0
  BY <1>4 DEF HwArbiter
<1>14. hw.last = (s # Transport)
  BY <1>2, <1>3, <1>4, <1>5, <1>6 DEF HwArbiter
<1>15. IF s # Transport THEN MovedRegisters(hw.registers, r, g, s)
       ELSE KeptRegisters(hw.registers, r)
  <2>1. q.group = (IF hw.last THEN (IF g = 2 THEN 0 ELSE g + 1) ELSE r.group)
    BY <1>2, <1>3, <1>4 DEF HwArbiter
  <2>2. q.basic = (IF hw.last /\ g = 0 THEN (IF s = 4 THEN 0 ELSE s + 1) ELSE r.basic)
    BY <1>2, <1>3, <1>4, <1>5 DEF HwArbiter
  <2>3. q.control = (IF hw.last /\ g = 1 THEN (IF s = 5 THEN 1 ELSE 0) ELSE r.control)
    BY <1>2, <1>3, <1>4, <1>5 DEF HwArbiter
  <2>4. q.uart = (IF hw.last /\ g = 2 THEN (IF s = 10 THEN 0 ELSE s - 6) ELSE r.uart)
    BY <1>2, <1>3, <1>4, <1>5 DEF HwArbiter
  <2> HIDE DEF hw
  <2> QED  BY <1>14, <2>1, <2>2, <2>3, <2>4 DEF MovedRegisters, KeptRegisters
<1>16. q.locked = (~cancel /\ s = Transport)
  BY <1>2, <1>3, <1>4, <1>5, <1>6 DEF HwArbiter
<1>17. q.index = (IF cancel THEN 0 ELSE IF s = Transport THEN 1 ELSE r.index)
  BY <1>2, <1>3, <1>4, <1>5, <1>6 DEF HwArbiter
<1>18. q.last = (IF cancel THEN 0 ELSE IF s = Transport THEN count - 1 ELSE r.last)
  BY <1>2, <1>3, <1>4, <1>5, <1>6 DEF HwArbiter
<1> QED  BY <1>11, <1>12, <1>13, <1>14, <1>15, <1>16, <1>17, <1>18 DEF FreeEdge

LEMMA IdleChannel ==
  ASSUME NEW r, NEW cancel \in BOOLEAN, NEW available \in BOOLEAN, NEW pending, NEW count,
         NEW E, E = MayBeServed(cancel, pending, count),
         r.locked \in BOOLEAN, ~(r.locked /\ ~cancel), ~(available /\ E # {})
  PROVE  IdleEdge(HwArbiter(r, cancel, available, pending, count), r, cancel)
<1> DEFINE hw == HwArbiter(r, cancel, available, pending, count)
           q == hw.registers
<1>2. pending \ (IF count \in 2..MaxWords /\ ~cancel THEN {} ELSE {Transport}) = E
  BY DEF MayBeServed
<1>4. (r.locked /\ ~cancel) = FALSE
  OBVIOUS
<1>6. (available /\ (IF r.locked /\ ~cancel THEN Transport \in pending ELSE E # {})) = FALSE
  BY <1>4
<1> HIDE DEF MayBeServed
<1>11. hw.valid = FALSE
  BY <1>2, <1>4, <1>6 DEF HwArbiter
<1>15. KeptRegisters(hw.registers, r)
  BY <1>2, <1>6 DEF HwArbiter, KeptRegisters
<1>16. q.locked = FALSE
  BY <1>2, <1>4, <1>6 DEF HwArbiter
<1>17. q.index = (IF cancel THEN 0 ELSE r.index)
  BY <1>2, <1>4, <1>6 DEF HwArbiter
<1>18. q.last = (IF cancel THEN 0 ELSE r.last)
  BY <1>2, <1>4, <1>6 DEF HwArbiter
<1> QED  BY <1>11, <1>15, <1>16, <1>17, <1>18 DEF IdleEdge

LEMMA LockedChannel ==
  ASSUME NEW r, NEW available \in BOOLEAN, NEW pending, NEW count,
         r.locked = TRUE, Transport \in pending
  PROVE  LockedEdge(HwArbiter(r, FALSE, available, pending, count), r, available)
<1> DEFINE hw == HwArbiter(r, FALSE, available, pending, count)
           q == hw.registers
<1>4. (r.locked /\ ~FALSE) = TRUE
  OBVIOUS
<1>5. \A P : NextSource(r, 2, P, r.locked /\ ~FALSE) = Transport
  BY <1>4 DEF NextSource
<1>6. \A P : (available /\ (IF r.locked /\ ~FALSE THEN Transport \in pending ELSE P # {})) = available
  BY <1>4
<1>11. hw.valid = available
  BY <1>4, <1>5, <1>6 DEF HwArbiter
<1>12. available => hw.source = Transport /\ hw.index = r.index /\ hw.last = (r.index = r.last)
  BY <1>4, <1>5, <1>6 DEF HwArbiter
<1>15. IF available /\ r.index = r.last THEN MovedRegisters(hw.registers, r, 2, Transport)
       ELSE KeptRegisters(hw.registers, r)
  <2>1. q.group = (IF hw.last THEN 0 ELSE r.group)
    BY <1>4, <1>5 DEF HwArbiter
  <2>2. q.basic = r.basic
    BY <1>4, <1>5 DEF HwArbiter
  <2>3. q.control = r.control
    BY <1>4, <1>5 DEF HwArbiter
  <2>4. q.uart = (IF hw.last THEN (IF Transport = 10 THEN 0 ELSE Transport - 6) ELSE r.uart)
    BY <1>4, <1>5 DEF HwArbiter
  <2>5. hw.last = (available /\ r.index = r.last)
    BY <1>4, <1>5, <1>6 DEF HwArbiter
  <2> HIDE DEF hw
  <2>6. CASE available /\ r.index = r.last
    <3>1. hw.last
      BY <2>5, <2>6
    <3> QED  BY <2>1, <2>2, <2>3, <2>4, <2>6, <3>1 DEF MovedRegisters
  <2>7. CASE ~(available /\ r.index = r.last)
    <3>1. ~hw.last
      BY <2>5, <2>7
    <3> QED  BY <2>1, <2>2, <2>3, <2>4, <2>7, <3>1 DEF KeptRegisters
  <2> QED  BY <2>6, <2>7
<1>16. q.locked = ~(available /\ r.index = r.last)
  BY <1>4, <1>5, <1>6 DEF HwArbiter
<1>17. q.index = (IF available THEN (IF r.index = r.last THEN 0 ELSE r.index + 1) ELSE r.index)
  BY <1>4, <1>5, <1>6 DEF HwArbiter
<1>18. q.last = r.last
  BY <1>4, <1>5, <1>6 DEF HwArbiter
<1> QED  BY <1>11, <1>12, <1>15, <1>16, <1>17, <1>18 DEF LockedEdge

\* What keeps the circuit from complaining: a transport that waits has a legal
\* length, and one that has the channel waits.
Orderly(r, cancel, pending, count) ==
  /\ r.locked \in BOOLEAN
  /\ Transport \in pending /\ ~cancel => r.locked \/ count \in 2..MaxWords
  /\ r.locked => Transport \in pending

LEMMA NoArbiterError ==
  ASSUME NEW r, NEW cancel \in BOOLEAN, NEW available, NEW pending, NEW count,
         Orderly(r, cancel, pending, count)
  PROVE  HwArbiter(r, cancel, available, pending, count).error = FALSE
BY DEF HwArbiter, Orderly

\* The registers q mean the state n.
RegistersMean(q, n) ==
  /\ RegisterFields(q)
  /\ q.group = n.group_next /\ q.basic = n.local_next[0] /\ q.control = n.local_next[1]
  /\ q.uart = n.local_next[2] /\ q.index = n.word_index
  /\ q.locked = (n.active # NoneActive)
  /\ n.active # NoneActive => q.last = Head(n.queues[Transport]) - 1

LEMMA SameMeaning ==
  ASSUME NEW q, NEW n, RegistersMean(q, n)
  PROVE  ArbiterMeaning(q) = ArbiterRegisters(n)
<1>1. CASE n.active # NoneActive
  <2>1. q.locked = TRUE
    BY <1>1 DEF RegistersMean
  <2> QED  BY <1>1, <2>1 DEF RegistersMean, RegisterFields, ArbiterMeaning, ArbiterRegisters
<1>2. CASE n.active = NoneActive
  <2>1. q.locked = FALSE
    BY <1>2 DEF RegistersMean
  <2>2. [q EXCEPT !.last = 0] = [group |-> q.group, basic |-> q.basic, control |-> q.control,
                                 uart |-> q.uart, locked |-> q.locked, index |-> q.index, last |-> 0]
    BY DEF RegistersMean, RegisterFields
  <2> QED  BY <1>2, <2>1, <2>2 DEF RegistersMean, ArbiterMeaning, ArbiterRegisters
<1> QED  BY <1>1, <1>2

\* The count at the port of the transport.
PortCount(a) == IF a.active = NoneActive /\ a.queues[Transport] # << >>
                THEN Head(a.queues[Transport]) ELSE 0

\* What the circuit does at the state a0 is what the reference does.
EdgeAlike(a0, cancel, available) ==
  LET a == IF cancel THEN Cancelled(a0) ELSE a0
      serves == available /\ PendingSources(a) # {}
      hw == HwArbiter(ArbiterRegisters(a0), cancel, available, PendingSources(a0), PortCount(a0))
  IN  /\ hw.valid = serves /\ ~hw.error
      /\ RegistersMean(hw.registers, IF serves THEN Served(a) ELSE a)
      /\ serves => /\ hw.source = Winner(a) /\ hw.index = a.word_index
                   /\ hw.last = IsLast(a, Winner(a))

LEMMA RegistersAre ==
  ASSUME NEW a
  PROVE  /\ ArbiterRegisters(a).group = a.group_next /\ ArbiterRegisters(a).basic = a.local_next[0]
         /\ ArbiterRegisters(a).control = a.local_next[1]
         /\ ArbiterRegisters(a).uart = a.local_next[2]
         /\ ArbiterRegisters(a).index = a.word_index
         /\ ArbiterRegisters(a).locked = (a.active # NoneActive)
         /\ ArbiterRegisters(a).locked \in BOOLEAN
         /\ a.active # NoneActive =>
              ArbiterRegisters(a).last = Head(a.queues[Transport]) - 1
BY DEF ArbiterRegisters

\* A transport that waits has a legal length.
LEMMA PortCountIs ==
  ASSUME NEW a, ArbiterOK(a), a.active = NoneActive
  PROVE  PortCount(a) \in 2..MaxWords <=> Transport \in PendingSources(a)
<1>1. Transport \in Sources
  BY DEF Transport, Sources
<1>2. a.queues[Transport] \in Seq(2..MaxWords)
  BY <1>1, ArbiterTypes DEF Lengths
<1>3. CASE a.queues[Transport] = << >>
  BY <1>1, <1>3 DEF PortCount, PendingSources
<1>4. CASE a.queues[Transport] # << >>
  BY <1>1, <1>2, <1>4, HeadTailProperties DEF PortCount, PendingSources
<1> QED  BY <1>3, <1>4

\* An edge that finds the channel free.
LEMMA FreeAlike ==
  ASSUME NEW a0, ArbiterOK(a0), NEW cancel \in BOOLEAN, NEW available \in BOOLEAN,
         cancel \/ a0.active = NoneActive
  PROVE  EdgeAlike(a0, cancel, available)
<1> DEFINE a == IF cancel THEN Cancelled(a0) ELSE a0
           E == PendingSources(a)
           r == ArbiterRegisters(a0)
           count == PortCount(a0)
           hw == HwArbiter(r, cancel, available, PendingSources(a0), count)
           serves == available /\ E # {}
           s == TableSource(a, E)
           g == TableGroup(a, E)
<1>1. /\ ArbiterOK(a) /\ a.active = NoneActive /\ a.word_index = 0
      /\ a.group_next = a0.group_next /\ a.local_next = a0.local_next
  BY CancelledIs, ArbiterTypes
<1>2. E = MayBeServed(cancel, PendingSources(a0), count)
  <2>1. CASE cancel
    BY <2>1, CancelledIs DEF MayBeServed
  <2>2. CASE ~cancel
    BY <2>2, PortCountIs DEF MayBeServed
  <2> QED  BY <2>1, <2>2
<1>3. E \in SUBSET Sources
  BY DEF PendingSources
<1>4. /\ r.group = a.group_next /\ r.basic = a.local_next[0] /\ r.control = a.local_next[1]
      /\ r.uart = a.local_next[2] /\ r.locked \in BOOLEAN /\ ~(r.locked /\ ~cancel)
      /\ ~cancel => r.index = 0
  BY <1>1, RegistersAre, ArbiterTypes
<1>5. a0.active = Transport => Transport \in PendingSources(a0)
  BY ArbiterTypes DEF PendingSources, Transport, Sources
<1>6. hw.error = FALSE
  <2>1. Transport \in PendingSources(a0) /\ ~cancel => r.locked \/ count \in 2..MaxWords
    BY PortCountIs
  <2>2. r.locked => Transport \in PendingSources(a0)
    BY <1>5, RegistersAre, ArbiterTypes
  <2>3. Orderly(r, cancel, PendingSources(a0), count)
    BY <1>4, <2>1, <2>2 DEF Orderly
  <2> QED  BY <2>3, NoArbiterError
<1>7. RegisterFields(hw.registers)
  BY CircuitFields
<1> HIDE DEF a, r, count
<1>8. CASE serves
  <2>1. E # {}
    BY <1>8
  <2>2. TablesSelect(a, E) /\ WinnerIs(a)
    BY <1>1, <1>3, <2>1, SelectByTables, WinnerFound
  <2>3. TablesName(r, E, g, s)
    BY <1>4, <2>2 DEF TablesName, TablesSelect, TableGroup, TableSource, RowOf, Groups
  <2>4. FreeEdge(hw, r, cancel, count, g, s)
    <3> HIDE DEF E, s, g
    <3> QED  BY <1>2, <1>4, <1>8, <2>1, <2>3, FreeChannel
  <2>5. /\ s = Winner(a) /\ GroupOf(s) = g /\ s \in E /\ (IsLast(a, s) <=> s # Transport)
    BY <1>1, <2>2 DEF WinnerIs, TablesSelect
  <2> DEFINE n == Served(a)
  <2>6. /\ IsLast(a, s) => CursorsBehind(a, s, n)
        /\ ~IsLast(a, s) => n = [a EXCEPT !.active = Transport, !.word_index = @ + 1]
    BY <1>1, <2>1, <2>5, ServedIs
  <2> HIDE DEF hw, n, s, g
  <2>7. RegistersMean(hw.registers, n)
    <3>1. CASE s # Transport
      <4>1. CursorsBehind(a, s, n)
        BY <2>5, <2>6, <3>1
      <4>2. MovedRegisters(hw.registers, r, g, s)
        BY <2>4, <3>1 DEF FreeEdge
      <4>3. /\ hw.registers.group = n.group_next /\ hw.registers.basic = n.local_next[0]
            /\ hw.registers.control = n.local_next[1] /\ hw.registers.uart = n.local_next[2]
        BY <1>4, <2>5, <4>1, <4>2 DEF CursorsBehind, MovedRegisters
      <4>4. n.active = NoneActive /\ n.word_index = 0
        BY <4>1 DEF CursorsBehind
      <4>5. hw.registers.locked = FALSE /\ hw.registers.index = 0
        BY <1>4, <2>4, <3>1 DEF FreeEdge
      <4> QED  BY <1>7, <4>3, <4>4, <4>5 DEF RegistersMean
    <3>2. CASE s = Transport
      <4>1. n = [a EXCEPT !.active = Transport, !.word_index = a.word_index + 1]
        BY <2>5, <2>6, <3>2
      <4>2. a \in Arbiters /\ a.word_index + 1 \in Nat
        BY <1>1, ArbiterTypes
      <4>3. BeginsTo(a, a.word_index + 1, n)
        BY <4>1, <4>2, BegunFields
      <4>4. /\ n.queues = a.queues /\ n.group_next = a.group_next /\ n.local_next = a.local_next
            /\ n.active = Transport /\ n.word_index = 1
        BY <1>1, <4>3 DEF BeginsTo
      <4>5. ~cancel
        <5>1. SUFFICES ASSUME cancel  PROVE FALSE
          OBVIOUS
        <5>2. Transport \notin E
          BY <5>1, CancelledIs DEF a
        <5> QED  BY <2>5, <3>2, <5>2
      <4>6. KeptRegisters(hw.registers, r)
        BY <2>4, <3>2 DEF FreeEdge
      <4>7. hw.registers.locked = TRUE /\ hw.registers.index = 1 /\ hw.registers.last = count - 1
        BY <2>4, <3>2, <4>5 DEF FreeEdge
      <4>8. count = Head(n.queues[Transport])
        <5>1. a = a0
          BY <4>5 DEF a
        <5>2. a.queues[Transport] # << >>
          BY <2>5, <3>2 DEF PendingSources
        <5> QED  BY <1>1, <4>4, <5>1, <5>2 DEF count, PortCount
      <4>9. Transport # NoneActive
        BY DEF Transport, NoneActive
      <4> QED  BY <1>4, <1>7, <4>4, <4>6, <4>7, <4>8, <4>9 DEF KeptRegisters, RegistersMean
    <3> QED  BY <3>1, <3>2
  <2>8. hw.valid = TRUE /\ hw.source = s /\ hw.index = 0 /\ hw.last = (s # Transport)
    BY <2>4 DEF FreeEdge
  <2>9. IsLast(a, s) \in BOOLEAN
    BY DEF IsLast
  <2> QED  BY <1>1, <1>6, <1>8, <2>5, <2>7, <2>8, <2>9 DEF EdgeAlike, a, r, count, hw, n
<1>9. CASE ~serves
  <2>1. IdleEdge(hw, r, cancel)
    <3> HIDE DEF E
    <3> QED  BY <1>2, <1>4, <1>9, IdleChannel
  <2> HIDE DEF hw
  <2>2. RegistersMean(hw.registers, a)
    BY <1>1, <1>4, <1>7, <2>1 DEF IdleEdge, KeptRegisters, RegistersMean
  <2>3. hw.valid = FALSE
    BY <2>1 DEF IdleEdge
  <2> QED  BY <1>6, <1>9, <2>2, <2>3 DEF EdgeAlike, a, r, count, hw
<1> QED  BY <1>8, <1>9

\* An edge within a transport.
LEMMA LockedAlike ==
  ASSUME NEW a, ArbiterOK(a), NEW available \in BOOLEAN, a.active = Transport
  PROVE  EdgeAlike(a, FALSE, available)
<1> DEFINE r == ArbiterRegisters(a)
           E == PendingSources(a)
           count == PortCount(a)
           hw == HwArbiter(r, FALSE, available, E, count)
           n == Served(a)
<1>1. Transport \in E /\ Transport # NoneActive
  BY ArbiterTypes DEF PendingSources, Transport, Sources, NoneActive
<1>2. /\ r.group = a.group_next /\ r.basic = a.local_next[0] /\ r.control = a.local_next[1]
      /\ r.uart = a.local_next[2] /\ r.index = a.word_index /\ r.locked = TRUE
      /\ r.last = Head(a.queues[Transport]) - 1
  BY <1>1, RegistersAre
<1>3. LockedEdge(hw, r, available)
  <2> HIDE DEF r, E, count
  <2> QED  BY <1>1, <1>2, LockedChannel
<1>4. hw.error = FALSE
  <2> HIDE DEF r, E, count
  <2>1. Orderly(r, FALSE, E, count)
    BY <1>1, <1>2 DEF Orderly
  <2> QED  BY <2>1, NoArbiterError
<1>5. RegisterFields(hw.registers)
  BY CircuitFields
<1>6. E # {} /\ Winner(a) = Transport
  BY <1>1 DEF Winner
<1>7. (r.index = r.last) = IsLast(a, Transport) /\ Head(a.queues[Transport]) \in Nat
  <2>1. a.queues[Transport] # << >> /\ a.queues[Transport] \in Seq(Nat) /\ a.word_index \in Nat
    BY ArbiterTypes, SMTT(30) DEF Transport, Sources
  <2>2. Head(a.queues[Transport]) \in Nat
    BY <2>1, HeadTailProperties
  <2> HIDE DEF r
  <2> QED  BY <1>2, <2>1, <2>2, SMTT(30) DEF IsLast
<1>8. /\ IsLast(a, Transport) => CursorsBehind(a, Transport, n)
      /\ ~IsLast(a, Transport) => n = [a EXCEPT !.active = Transport, !.word_index = @ + 1]
  BY <1>6, ServedIs
<1>9. GroupOf(Transport) = 2
  BY GroupsAre DEF Transport, Sources
<1> HIDE DEF r, count, hw, n, E
<1>10. CASE available /\ IsLast(a, Transport)
  <2>1. MovedRegisters(hw.registers, r, 2, Transport)
    BY <1>3, <1>7, <1>10 DEF LockedEdge
  <2>2. CursorsBehind(a, Transport, n)
    BY <1>8, <1>10
  <2>3. /\ hw.registers.group = n.group_next /\ hw.registers.basic = n.local_next[0]
        /\ hw.registers.control = n.local_next[1] /\ hw.registers.uart = n.local_next[2]
    BY <1>2, <1>9, <2>1, <2>2 DEF CursorsBehind, MovedRegisters
  <2>4. n.active = NoneActive /\ n.word_index = 0
    BY <2>2 DEF CursorsBehind
  <2>5. hw.registers.locked = FALSE /\ hw.registers.index = 0
    BY <1>3, <1>7, <1>10 DEF LockedEdge
  <2>6. RegistersMean(hw.registers, n)
    BY <1>5, <2>3, <2>4, <2>5 DEF RegistersMean
  <2>7. hw.valid = TRUE /\ hw.source = Transport /\ hw.index = a.word_index /\ hw.last = TRUE
    BY <1>2, <1>3, <1>7, <1>10 DEF LockedEdge
  <2> QED  BY <1>4, <1>6, <1>10, <2>6, <2>7 DEF EdgeAlike, r, count, hw, n, E
<1>11. CASE available /\ ~IsLast(a, Transport)
  <2>1. KeptRegisters(hw.registers, r)
    BY <1>3, <1>7, <1>11 DEF LockedEdge
  <2>2. n = [a EXCEPT !.active = Transport, !.word_index = a.word_index + 1]
    BY <1>8, <1>11
  <2>3. a \in Arbiters /\ a.word_index + 1 \in Nat
    BY ArbiterTypes
  <2>4. BeginsTo(a, a.word_index + 1, n)
    BY <2>2, <2>3, BegunFields
  <2>5. /\ hw.registers.locked = TRUE /\ hw.registers.index = a.word_index + 1
        /\ hw.registers.last = Head(a.queues[Transport]) - 1
    BY <1>2, <1>3, <1>7, <1>11 DEF LockedEdge
  <2>6. RegistersMean(hw.registers, n)
    BY <1>1, <1>2, <1>5, <2>1, <2>4, <2>5 DEF RegistersMean, KeptRegisters, BeginsTo
  <2>7. hw.valid = TRUE /\ hw.source = Transport /\ hw.index = a.word_index /\ hw.last = FALSE
    BY <1>2, <1>3, <1>7, <1>11 DEF LockedEdge
  <2>8. IsLast(a, Transport) = FALSE
    BY <1>11 DEF IsLast
  <2> QED  BY <1>4, <1>6, <1>11, <2>8, <2>6, <2>7 DEF EdgeAlike, r, count, hw, n, E
<1>12. CASE ~available
  <2>1. KeptRegisters(hw.registers, r) /\ hw.valid = FALSE
    BY <1>3, <1>12 DEF LockedEdge
  <2>2. /\ hw.registers.locked = TRUE /\ hw.registers.index = a.word_index
        /\ hw.registers.last = Head(a.queues[Transport]) - 1
    BY <1>2, <1>3, <1>12 DEF LockedEdge
  <2>3. RegistersMean(hw.registers, a)
    BY <1>1, <1>2, <1>5, <2>1, <2>2 DEF RegistersMean, KeptRegisters
  <2> QED  BY <1>4, <1>12, <2>1, <2>3 DEF EdgeAlike, r, count, hw, E
<1> QED  BY <1>10, <1>11, <1>12

\* The circuit serves what the reference serves.
LEMMA ArbiterAlike == ArbiterOK(arbiter) => HardwareArbitrates
<1> SUFFICES ASSUME ArbiterOK(arbiter), NEW cancel \in BOOLEAN, NEW available \in BOOLEAN
             PROVE  HardwareArbitrates!(cancel, available)
  BY DEF HardwareArbitrates
<1>1. EdgeAlike(arbiter, cancel, available)
  BY FreeAlike, LockedAlike, ArbiterTypes
<1> QED  BY <1>1, SameMeaning DEF EdgeAlike, PortCount

LEMMA ArbiterStarts == ArbiterOK(ArbiterReset)
<1> DEFINE a == ArbiterReset
<1>1. /\ a.queues = [s \in Sources |-> << >>] /\ a.group_next = 0
      /\ a.local_next = [g \in Groups |-> 0] /\ a.active = NoneActive /\ a.word_index = 0
  BY DEF ArbiterReset
<1>2. a.queues \in [Sources -> Seq(Nat)] /\ \A s \in Sources : a.queues[s] \in Seq(Lengths(s))
  BY <1>1, EmptySeq
<1>3. a.local_next \in [Groups -> Nat] /\ \A g \in Groups : a.local_next[g] \in 0..(Size[g] - 1)
  BY <1>1, FirstAndSize DEF Groups
<1>4. a \in Arbiters
  BY <1>1, <1>2, <1>3 DEF Arbiters, ArbiterReset
<1> HIDE DEF a
<1>5. ArbiterOK(a)
  BY <1>1, <1>2, <1>3, <1>4 DEF ArbiterOK, NoneActive, Transport
<1> QED  BY <1>5 DEF a

LEMMA ArbiterContinues == ArbiterOK(arbiter) /\ ArbiterNext => ArbiterOK(arbiter')
<1> SUFFICES ASSUME ArbiterOK(arbiter), ArbiterNext  PROVE ArbiterOK(arbiter')
  OBVIOUS
<1>1. ASSUME NEW s \in Offered, NEW words \in Lengths(s), Offer(s, words)
      PROVE  ArbiterOK(arbiter')
  <2> DEFINE a == arbiter
             b == arbiter'
  <2>1. /\ a \in Arbiters /\ a.queues \in [Sources -> Seq(Nat)]
        /\ \A t \in Sources : a.queues[t] \in Seq(Lengths(t))
        /\ \A h \in Groups : a.local_next[h] \in 0..(Size[h] - 1)
        /\ a.active = NoneActive => a.word_index = 0
        /\ a.active = Transport => /\ a.queues[Transport] # << >> /\ a.word_index # 0
                                   /\ a.word_index < Head(a.queues[Transport])
    BY ArbiterTypes
  <2>2. s \in Sources /\ words \in Nat /\ Transport \in Sources
    BY MessageArbiterAssumption DEF Sources, Lengths, Transport
  <2>3. b = [a EXCEPT !.queues[s] = Append(@, words)]
    BY <1>1 DEF Offer
  <2>4. /\ b.queues = [a.queues EXCEPT ![s] = Append(@, words)] /\ b.group_next = a.group_next
        /\ b.local_next = a.local_next /\ b.active = a.active /\ b.word_index = a.word_index
        /\ b.queues \in [Sources -> Seq(Nat)] => b \in Arbiters
    <3> HIDE DEF a, b
    <3> QED  BY <2>1, <2>3 DEF Arbiters
  <2> HIDE DEF a, b
  <2>5. /\ b.queues = [t \in Sources |-> b.queues[t]]
        /\ \A t \in Sources : b.queues[t] = IF t = s THEN Append(a.queues[t], words) ELSE a.queues[t]
    BY <2>1, <2>4
  <2>6. ASSUME NEW t \in Sources
        PROVE  b.queues[t] \in Seq(Nat) /\ b.queues[t] \in Seq(Lengths(t))
    <3>1. a.queues[t] \in Seq(Nat) /\ a.queues[t] \in Seq(Lengths(t))
      BY <2>1
    <3>2. CASE t = s
      <4> DEFINE q == a.queues[t]
      <4>1. words \in Lengths(t) /\ q \in Seq(Nat) /\ q \in Seq(Lengths(t))
        BY <3>1, <3>2
      <4> HIDE DEF q
      <4>2. Append(q, words) \in Seq(Nat) /\ Append(q, words) \in Seq(Lengths(t))
        BY <2>2, <4>1, AppendProperties
      <4> QED  BY <2>5, <3>2, <4>2 DEF q
    <3>3. CASE t # s
      BY <2>5, <3>1, <3>3
    <3> QED  BY <3>2, <3>3
  <2>7. b \in Arbiters
    <3>1. b.queues \in [Sources -> Seq(Nat)]
      BY <2>5, <2>6
    <3> QED  BY <2>4, <3>1
  <2>8. a.queues[Transport] # << >> =>
          b.queues[Transport] # << >> /\ Head(b.queues[Transport]) = Head(a.queues[Transport])
    <3>1. a.queues[Transport] \in Seq(Nat)
      BY <2>1, <2>2
    <3>2. CASE s = Transport
      <4> SUFFICES ASSUME a.queues[Transport] # << >>
                   PROVE  /\ b.queues[Transport] # << >>
                          /\ Head(b.queues[Transport]) = Head(a.queues[Transport])
        OBVIOUS
      <4> DEFINE q == a.queues[Transport]
      <4>1. b.queues[Transport] = Append(q, words)
        BY <2>2, <2>5, <3>2
      <4>2. q \in Seq(Nat) /\ Len(q) > 0
        BY <3>1, EmptySeq
      <4> HIDE DEF q
      <4>3. Append(q, words) # << >> /\ Head(Append(q, words)) = Head(q)
        BY <2>2, <4>2, AppendProperties
      <4> QED  BY <4>1, <4>3 DEF q
    <3>3. CASE s # Transport
      BY <2>2, <2>5, <3>3
    <3> QED  BY <3>2, <3>3
  <2>9. ArbiterOK(b)
    BY <2>1, <2>4, <2>6, <2>7, <2>8 DEF ArbiterOK
  <2> QED  BY <2>9 DEF b
<1>2. CASE Tick
  BY <1>2, ServedIs DEF Tick
<1>3. CASE Cancel
  <2> DEFINE a == Cancelled(arbiter)
  <2>1. ArbiterOK(a)
    BY CancelledIs
  <2>2. arbiter' = IF PendingSources(a) = {} THEN a ELSE Served(a)
    BY <1>3 DEF Cancel
  <2> HIDE DEF a
  <2> QED  BY <2>1, <2>2, ServedIs
<1> QED  BY <1>1, <1>2, <1>3 DEF ArbiterNext

-------------------------------------------------------------------------------
(* The basic messages.  A queue holds the request that is not sent yet and the *)
(* reply that is owed, in the order in which they came.                        *)

RequestOnly == <<"request">>
ReplyOnly == <<"reply">>
RequestFirst == <<"request", "reply">>
ReplyFirst == <<"reply", "request">>
Queues == {<< >>, RequestOnly, ReplyOnly, RequestFirst, ReplyFirst}

LEMMA QueueHeads ==
  /\ Head(RequestOnly) = "request" /\ Head(RequestFirst) = "request"
  /\ Head(ReplyOnly) = "reply" /\ Head(ReplyFirst) = "reply"
  /\ "request" # "reply"
BY DEF RequestOnly, ReplyOnly, RequestFirst, ReplyFirst

LEMMA QueueTails ==
  /\ Tail(RequestOnly) = << >> /\ Tail(ReplyOnly) = << >>
  /\ Tail(RequestFirst) = ReplyOnly /\ Tail(ReplyFirst) = RequestOnly
BY DEF RequestOnly, ReplyOnly, RequestFirst, ReplyFirst

LEMMA QueueAppends ==
  /\ Append(<< >>, "request") = RequestOnly /\ Append(<< >>, "reply") = ReplyOnly
  /\ Append(RequestOnly, "reply") = RequestFirst /\ Append(ReplyOnly, "request") = ReplyFirst
<1>1. Append(<< >>, "request") = RequestOnly /\ Append(<< >>, "reply") = ReplyOnly
  BY DEF RequestOnly, ReplyOnly
<1>2. ASSUME NEW x, NEW y  PROVE Append(<<x>>, y) = <<x, y>>
  <2>1. <<x>> \in Seq({x, y}) /\ <<x, y>> \in Seq({x, y}) /\ y \in {x, y}
    OBVIOUS
  <2>2. /\ Append(<<x>>, y) \in Seq({x, y}) /\ Len(Append(<<x>>, y)) = 2
        /\ Append(<<x>>, y)[1] = x /\ Append(<<x>>, y)[2] = y
    BY <2>1, AppendProperties
  <2> DEFINE a == Append(<<x>>, y)
             z == <<x, y>>
  <2>3. Len(z) = 2 /\ z[1] = x /\ z[2] = y
    OBVIOUS
  <2> HIDE DEF a, z
  <2>4. \A i \in 1..2 : a[i] = z[i]
    BY <2>2, <2>3 DEF a
  <2> QED  BY <2>1, <2>2, <2>3, <2>4, SeqEqual DEF a, z
<1> QED  BY <1>1, <1>2 DEF RequestOnly, ReplyOnly, RequestFirst, ReplyFirst

LEMMA QueuesDiffer ==
  /\ RequestOnly # << >> /\ ReplyOnly # << >> /\ RequestFirst # << >> /\ ReplyFirst # << >>
  /\ RequestOnly # RequestFirst /\ ReplyOnly # RequestFirst /\ ReplyFirst # RequestFirst
  /\ RequestOnly # ReplyOnly /\ RequestOnly # ReplyFirst /\ ReplyOnly # ReplyFirst
BY DEF RequestOnly, ReplyOnly, RequestFirst, ReplyFirst

\* What a queue may hold, given whether the request and the reply wait in it.
QueuesFor(request, reply) ==
  IF request THEN (IF reply THEN {RequestFirst, ReplyFirst} ELSE {RequestOnly})
  ELSE IF reply THEN {ReplyOnly} ELSE {<< >>}

Locals == [kind : Kinds \cup {NoOp}, upper : Nat, sent : BOOLEAN]
Remotes == [kind : Kinds \cup {NoOp}, upper : Nat, rate : Nat, age : Nat, missed : BOOLEAN]
Basics == [local : Locals, remote : Remotes, queues : [Kinds -> Queues]]

LocalOK(l) == l \in Locals /\ (l.kind = NoOp => l = NoLocal)

RemoteOK(m) ==
  /\ m \in Remotes
  /\ m.kind = NoOp => m = NoRemote
  /\ m.kind \notin {DeviceId, Port} => m.upper = 0
  /\ m.kind # Rate => m.rate = 0
  /\ m.age <= AckEdges + 1
  /\ m.missed <=> m.age > AckEdges

\* Each waits in the queue of its kind, and nowhere else.
BasicOK(b) ==
  /\ b \in Basics /\ LocalOK(b.local) /\ RemoteOK(b.remote)
  /\ \A k \in Kinds : b.queues[k] \in QueuesFor(b.local.kind = k /\ ~b.local.sent, b.remote.kind = k)

\* The request came before the reply of its kind.
RequestBefore(b) == \E k \in Kinds : b.queues[k] = RequestFirst

LEMMA KindsAre == Kinds = {1, 4, 5, 6} /\ NoOp \notin Kinds /\ 2 \notin Kinds
                  /\ TxReady \in Kinds /\ Rate \in Kinds /\ DeviceId \in Kinds /\ Port \in Kinds
BY DEF Kinds, TxReady, Rate, DeviceId, Port, NoOp

LEMMA BasicTypes ==
  ASSUME NEW b, BasicOK(b)
  PROVE  /\ b.local \in Locals /\ b.remote \in Remotes /\ b.queues \in [Kinds -> Queues]
         /\ b.local.kind \in Kinds \cup {NoOp} /\ b.local.upper \in Nat /\ b.local.sent \in BOOLEAN
         /\ b.remote.kind \in Kinds \cup {NoOp} /\ b.remote.upper \in Nat /\ b.remote.rate \in Nat
         /\ b.remote.age \in Nat /\ b.remote.missed \in BOOLEAN
         /\ b.local.kind = NoOp => b.local.sent = FALSE /\ b.local.upper = 0
         /\ b.remote.kind = NoOp => /\ b.remote.upper = 0 /\ b.remote.rate = 0
                                    /\ b.remote.age = 0 /\ b.remote.missed = FALSE
         /\ b.remote.kind \notin {DeviceId, Port} => b.remote.upper = 0
         /\ b.remote.kind # Rate => b.remote.rate = 0
         /\ b.remote.age <= AckEdges + 1 /\ (b.remote.missed <=> b.remote.age > AckEdges)
BY DEF BasicOK, Basics, LocalOK, RemoteOK, Locals, Remotes, NoLocal, NoRemote

\* Where the request and the reply wait, by their kinds.
LEMMA Waiting ==
  ASSUME NEW b, BasicOK(b), NEW k \in Kinds
  PROVE  /\ b.local.kind = k /\ ~b.local.sent /\ b.remote.kind = k =>
              b.queues[k] = RequestFirst \/ b.queues[k] = ReplyFirst
         /\ b.local.kind = k /\ ~b.local.sent /\ b.remote.kind # k => b.queues[k] = RequestOnly
         /\ ~(b.local.kind = k /\ ~b.local.sent) /\ b.remote.kind = k => b.queues[k] = ReplyOnly
         /\ ~(b.local.kind = k /\ ~b.local.sent) /\ b.remote.kind # k => b.queues[k] = << >>
<1>1. b.queues[k] \in QueuesFor(b.local.kind = k /\ ~b.local.sent, b.remote.kind = k)
  BY DEF BasicOK
<1> QED  BY <1>1 DEF QueuesFor

\* The order counts only while both wait in one queue.
LEMMA OrderOfOne ==
  ASSUME NEW b, BasicOK(b), RequestBefore(b)
  PROVE  /\ b.local.kind \in Kinds /\ b.remote.kind = b.local.kind /\ ~b.local.sent
         /\ b.queues[b.local.kind] = RequestFirst
<1>1. PICK k \in Kinds : b.queues[k] = RequestFirst
  BY DEF RequestBefore
<1>2. b.local.kind = k /\ ~b.local.sent /\ b.remote.kind = k
  BY <1>1, Waiting, QueuesDiffer
<1> QED  BY <1>1, <1>2

\* Two endpoints agree on what waits when they agree on the request and the reply.
LEMMA BasicBuilt ==
  ASSUME NEW b, b \in Basics, LocalOK(b.local), RemoteOK(b.remote),
         \A k \in Kinds :
           b.queues[k] \in QueuesFor(b.local.kind = k /\ ~b.local.sent, b.remote.kind = k)
  PROVE  BasicOK(b)
BY DEF BasicOK
-------------------------------------------------------------------------------
(* The stages of an edge.                                                      *)

\* Time passes.
LEMMA AdvancedOK ==
  ASSUME NEW b, BasicOK(b)
  PROVE  /\ BasicOK(Advanced(b))
         /\ Advanced(b).local = b.local /\ Advanced(b).queues = b.queues
         /\ Advanced(b).remote.kind = b.remote.kind /\ Advanced(b).remote.upper = b.remote.upper
         /\ Advanced(b).remote.rate = b.remote.rate
         /\ b.remote.kind = NoOp => Advanced(b).remote.age = 0
         /\ b.remote.kind # NoOp =>
              Advanced(b).remote.age = IF b.remote.age > AckEdges THEN b.remote.age
                                       ELSE b.remote.age + 1
<1>1. CASE b.remote.kind = NoOp
  BY <1>1, BasicTypes DEF Advanced
<1>2. CASE b.remote.kind # NoOp
  <2> DEFINE n == Advanced(b)
             age == IF b.remote.age > AckEdges THEN b.remote.age ELSE b.remote.age + 1
             m == [b.remote EXCEPT !.age = age, !.missed = @ \/ age > AckEdges]
  <2>1. b \in Basics /\ b.remote \in Remotes /\ b.remote.age \in Nat /\ AckEdges \in Nat
    BY BasicTypes, BasicMessageAssumption DEF BasicOK
  <2>8. age \in Nat
    BY <2>1
  <2>2. n = [b EXCEPT !.remote.age = age, !.remote.missed = @ \/ age > AckEdges]
    BY <1>2 DEF Advanced
  <2> HIDE DEF age
  <2>3. /\ n.local = b.local /\ n.queues = b.queues
        /\ n.remote.kind = b.remote.kind /\ n.remote.upper = b.remote.upper
        /\ n.remote.rate = b.remote.rate /\ n.remote.age = age
        /\ n.remote.missed = (b.remote.missed \/ age > AckEdges)
    BY <2>1, <2>2, ZenonT(40) DEF Basics, Remotes
  <2>4. n \in Basics /\ n.remote \in Remotes
    <3> DEFINE miss == b.remote.missed \/ age > AckEdges
    <3>1. n = [b EXCEPT !.remote.age = age, !.remote.missed = miss] /\ miss \in BOOLEAN
      BY <2>2
    <3> HIDE DEF n, miss
    <3>2. n.remote \in Remotes
      BY <2>1, <2>8, <3>1 DEF Basics, Remotes
    <3>3. n \in Basics
      BY <2>1, <2>8, <3>1, <3>2 DEF Basics
    <3> QED  BY <3>2, <3>3
  <2> HIDE DEF n
  <2>5. age <= AckEdges + 1 /\ (b.remote.missed \/ age > AckEdges <=> age > AckEdges)
    <3>1. b.remote.age <= AckEdges + 1 /\ (b.remote.missed <=> b.remote.age > AckEdges)
      BY BasicTypes
    <3>2. CASE b.remote.age > AckEdges
      BY <2>1, <3>1, <3>2 DEF age
    <3>3. CASE ~(b.remote.age > AckEdges)
      <4>1. b.remote.missed = FALSE
        BY <3>1, <3>3
      <4>2. age <= AckEdges + 1
        BY <2>1, <3>3 DEF age
      <4> QED  BY <4>1, <4>2
    <3> QED  BY <3>2, <3>3
  <2>6. RemoteOK(n.remote)
    BY <1>2, <2>3, <2>4, <2>5, BasicTypes DEF RemoteOK
  <2>7. BasicOK(n)
    BY <2>3, <2>4, <2>6 DEF BasicOK
  <2> QED  BY <1>2, <2>3, <2>7 DEF n, age
<1> QED  BY <1>1, <1>2

\* The verdict on a word, one question after the other.
Supported(word) == word.basic /\ word.kind \in Kinds /\ (word.kind = TxReady => Folding)

LEMMA VerdictIs ==
  ASSUME NEW b, NEW word
  PROVE  Verdict(b, word) =
           IF ~word.basic \/ word.kind \notin Kinds \cup {NoOp} THEN "unhandled"
           ELSE IF word.kind = NoOp THEN "noop"
           ELSE IF ~Supported(word) THEN "unsupported"
           ELSE IF word.ack
                THEN IF b.local.sent /\ b.local.kind = word.kind THEN "ack" ELSE "unmatched_ack"
                ELSE IF b.remote.kind # NoOp THEN "remote_overlap" ELSE "request"
<1>1. CASE ~word.basic \/ word.kind \notin Kinds \cup {NoOp}
  BY <1>1, KindsAre DEF Verdict, TxReady, NoOp
<1>2. CASE word.basic /\ word.kind = NoOp
  BY <1>2, KindsAre DEF Verdict, TxReady, NoOp
<1>3. CASE word.basic /\ word.kind \in Kinds /\ ~Supported(word)
  BY <1>3, KindsAre DEF Verdict, TxReady, NoOp, Supported
<1>4. CASE word.basic /\ word.kind \in Kinds /\ Supported(word)
  BY <1>4, KindsAre DEF Verdict, TxReady, NoOp, Supported
<1> QED  BY <1>1, <1>2, <1>3, <1>4

\* An acknowledgement frees the end.
AckedTo(b, n) ==
  BasicOK(n) /\ n.local = NoLocal /\ n.remote = b.remote /\ n.queues = b.queues

LEMMA AckOK ==
  ASSUME NEW b, BasicOK(b), NEW word, NEW own, Verdict(b, word) = "ack"
  PROVE  AckedTo(b, Received(b, word, own)) /\ b.local.sent
<1> DEFINE n == Received(b, word, own)
<1>1. b.local.sent
  BY VerdictIs
<1>2. n = [b EXCEPT !.local = NoLocal]
  BY DEF Received
<1>3. b \in Basics
  BY DEF BasicOK
<1>4. NoLocal \in Locals /\ NoLocal.kind = NoOp
  BY DEF NoLocal, Locals
<1>5. n \in Basics /\ n.local = NoLocal /\ n.remote = b.remote /\ n.queues = b.queues
  BY <1>2, <1>3, <1>4 DEF Basics
<1> HIDE DEF n
<1>6. \A k \in Kinds : n.queues[k] \in QueuesFor(n.local.kind = k /\ ~n.local.sent, n.remote.kind = k)
  <2> SUFFICES ASSUME NEW k \in Kinds
               PROVE  n.queues[k] \in QueuesFor(n.local.kind = k /\ ~n.local.sent, n.remote.kind = k)
    OBVIOUS
  <2>1. ~(n.local.kind = k /\ ~n.local.sent) /\ ~(b.local.kind = k /\ ~b.local.sent)
    BY <1>1, <1>4, <1>5, KindsAre
  <2> QED  BY <1>5, <2>1, Waiting DEF QueuesFor
<1>7. LocalOK(n.local) /\ RemoteOK(n.remote)
  BY <1>4, <1>5 DEF LocalOK, BasicOK
<1>8. BasicOK(n)
  BY <1>5, <1>6, <1>7 DEF BasicOK
<1> QED  BY <1>1, <1>5, <1>8 DEF AckedTo, n

\* A request is owed a reply, which waits behind a request of this end.
NewRemote(word, own) ==
  [kind |-> word.kind, upper |-> IdentityUpper(word.kind, own),
   rate |-> IF word.kind = Rate THEN word.upper ELSE 0, age |-> 0, missed |-> FALSE]

RequestedTo(b, word, own, n) ==
  /\ BasicOK(n) /\ n.local = b.local /\ n.remote = NewRemote(word, own)
  /\ RequestBefore(n) <=> b.local.kind = word.kind /\ ~b.local.sent

LEMMA RequestOK ==
  ASSUME NEW b, BasicOK(b), NEW word, NEW own \in Nat, word.upper \in Nat,
         Verdict(b, word) = "request"
  PROVE  RequestedTo(b, word, own, Received(b, word, own))
<1> DEFINE n == Received(b, word, own)
           m == NewRemote(word, own)
<1>1. word.kind \in Kinds /\ b.remote.kind = NoOp
  BY VerdictIs DEF Supported
<1>2. n = [b EXCEPT !.remote = m, !.queues[word.kind] = Append(@, "reply")]
  BY DEF Received, NewRemote
<1>3. b \in Basics /\ b.queues \in [Kinds -> Queues]
  BY BasicTypes DEF BasicOK
<1>4. m \in Remotes /\ m.kind = word.kind /\ RemoteOK(m)
  <2>1. /\ m \in Remotes /\ m.kind = word.kind /\ m.upper = IdentityUpper(word.kind, own)
        /\ m.rate = (IF word.kind = Rate THEN word.upper ELSE 0) /\ m.age = 0 /\ m.missed = FALSE
    BY <1>1 DEF NewRemote, Remotes, IdentityUpper
  <2> HIDE DEF m
  <2>2. m.upper = (IF m.kind \in {DeviceId, Port} THEN own ELSE 0)
    BY <2>1 DEF IdentityUpper
  <2>3. 0 <= AckEdges + 1 /\ ~(0 > AckEdges)
    BY BasicMessageAssumption
  <2> QED  BY <1>1, <2>1, <2>2, <2>3, KindsAre DEF RemoteOK
<1> HIDE DEF m
<1>5. /\ n.local = b.local /\ n.remote = m
      /\ n.queues = [b.queues EXCEPT ![word.kind] = Append(@, "reply")]
      /\ n.queues \in [Kinds -> Queues] => n \in Basics
  BY <1>2, <1>3, <1>4 DEF Basics
<1> HIDE DEF n
<1>6. /\ n.queues = [k \in Kinds |-> n.queues[k]]
      /\ \A k \in Kinds : n.queues[k] = IF k = word.kind THEN Append(b.queues[k], "reply")
                                        ELSE b.queues[k]
  BY <1>3, <1>5
<1>7. ASSUME NEW k \in Kinds
      PROVE  /\ n.queues[k] \in QueuesFor(n.local.kind = k /\ ~n.local.sent, n.remote.kind = k)
             /\ n.queues[k] \in Queues
             /\ n.queues[k] = RequestFirst <=> k = word.kind /\ b.local.kind = k /\ ~b.local.sent
  <2>1. b.remote.kind # k
    BY <1>1, KindsAre
  <2>2. CASE b.local.kind = k /\ ~b.local.sent
    <3>1. b.queues[k] = RequestOnly
      BY <2>1, <2>2, Waiting
    <3>2. n.queues[k] = IF k = word.kind THEN RequestFirst ELSE RequestOnly
      BY <1>6, <3>1, QueueAppends
    <3> QED  BY <1>4, <1>5, <2>2, <3>2, QueuesDiffer DEF QueuesFor, Queues
  <2>3. CASE ~(b.local.kind = k /\ ~b.local.sent)
    <3>1. b.queues[k] = << >>
      BY <2>1, <2>3, Waiting
    <3>2. n.queues[k] = IF k = word.kind THEN ReplyOnly ELSE << >>
      BY <1>6, <3>1, QueueAppends
    <3> QED  BY <1>4, <1>5, <2>3, <3>2, QueuesDiffer DEF QueuesFor, Queues
  <2> QED  BY <2>2, <2>3
<1>8. n.queues \in [Kinds -> Queues]
  BY <1>6, <1>7
<1>9. n \in Basics
  BY <1>5, <1>8
<1>10. LocalOK(n.local) /\ RemoteOK(n.remote)
  BY <1>4, <1>5 DEF BasicOK
<1>11. BasicOK(n)
  BY <1>7, <1>9, <1>10 DEF BasicOK
<1>12. RequestBefore(n) <=> b.local.kind = word.kind /\ ~b.local.sent
  BY <1>1, <1>7 DEF RequestBefore
<1> QED  BY <1>5, <1>11, <1>12 DEF RequestedTo, n, m

\* The arbiter takes a request: it is sent.
SentTo(b, n) ==
  /\ BasicOK(n) /\ n.remote = b.remote
  /\ n.local.kind = b.local.kind /\ n.local.upper = b.local.upper /\ n.local.sent

\* Or a reply: nothing is owed any more.
RepliedTo(b, n) == BasicOK(n) /\ n.local = b.local /\ n.remote = NoRemote

LEMMA CommitOK ==
  ASSUME NEW b, BasicOK(b), NEW kind \in Kinds, b.queues[kind] # << >>
  PROVE  /\ Head(b.queues[kind]) = "request" => /\ SentTo(b, Committed(b, kind))
                                                /\ b.local.kind = kind /\ ~b.local.sent
         /\ Head(b.queues[kind]) # "request" => /\ RepliedTo(b, Committed(b, kind))
                                                /\ Head(b.queues[kind]) = "reply"
                                                /\ b.remote.kind = kind
<1> DEFINE n == Committed(b, kind)
           p == [b EXCEPT !.queues[kind] = Tail(@)]
<1>1. b \in Basics /\ b.queues \in [Kinds -> Queues] /\ b.local \in Locals
  BY BasicTypes DEF BasicOK
<1>2. p.local = b.local /\ p.remote = b.remote /\ p.queues = [b.queues EXCEPT ![kind] = Tail(@)]
  BY <1>1 DEF Basics
<1>3. \A k \in Kinds : p.queues[k] = IF k = kind THEN Tail(b.queues[k]) ELSE b.queues[k]
  BY <1>1, <1>2
<1>4. \/ b.queues[kind] = RequestOnly \/ b.queues[kind] = ReplyOnly
      \/ b.queues[kind] = RequestFirst \/ b.queues[kind] = ReplyFirst
  BY <1>1 DEF Queues
<1>5. \A k \in Kinds : p.queues[k] \in Queues
  BY <1>1, <1>3, <1>4, QueueTails DEF Queues
<1>6. p \in Basics
  <2>1. p.queues = [k \in Kinds |-> p.queues[k]]
    BY <1>1, <1>2
  <2>2. p.queues \in [Kinds -> Queues]
    BY <1>5, <2>1
  <2> QED  BY <1>1, <2>2 DEF Basics
<1>7. CASE Head(b.queues[kind]) = "request"
  <2>1. b.queues[kind] = RequestOnly \/ b.queues[kind] = RequestFirst
    BY <1>4, <1>7, QueueHeads
  <2>2. b.local.kind = kind /\ ~b.local.sent
    BY <2>1, Waiting, QueuesDiffer
  <2>3. n = [p EXCEPT !.local.sent = TRUE]
    BY <1>7, QueueHeads DEF Committed
  <2> HIDE DEF p
  <2>4. /\ n \in Basics /\ n.remote = p.remote /\ n.queues = p.queues /\ n.local \in Locals
        /\ n.local.kind = p.local.kind /\ n.local.upper = p.local.upper /\ n.local.sent = TRUE
    BY <1>6, <2>3 DEF Basics, Locals
  <2> HIDE DEF n
  <2>5. ASSUME NEW k \in Kinds
        PROVE  n.queues[k] \in QueuesFor(n.local.kind = k /\ ~n.local.sent, n.remote.kind = k)
    <3>1. CASE k = kind
      <4>1. n.queues[k] = IF b.queues[kind] = RequestOnly THEN << >> ELSE ReplyOnly
        BY <1>3, <2>1, <2>4, <3>1, QueueTails, QueuesDiffer
      <4>2. b.remote.kind = kind <=> b.queues[kind] = RequestFirst
        BY <2>1, <2>2, Waiting, QueuesDiffer
      <4> QED  BY <1>2, <2>1, <2>4, <3>1, <4>1, <4>2, QueuesDiffer DEF QueuesFor
    <3>2. CASE k # kind
      BY <1>2, <1>3, <2>2, <2>4, <3>2, Waiting DEF QueuesFor
    <3> QED  BY <3>1, <3>2
  <2>6. LocalOK(n.local) /\ RemoteOK(n.remote)
    BY <1>2, <2>2, <2>4, KindsAre DEF BasicOK, LocalOK
  <2>7. BasicOK(n)
    BY <2>4, <2>5, <2>6 DEF BasicOK
  <2> QED  BY <1>2, <1>7, <2>2, <2>4, <2>7 DEF SentTo, n
<1>8. CASE Head(b.queues[kind]) # "request"
  <2>1. b.queues[kind] = ReplyOnly \/ b.queues[kind] = ReplyFirst
    BY <1>4, <1>8, QueueHeads
  <2>2. b.remote.kind = kind
    BY <2>1, Waiting, QueuesDiffer
  <2>3. Head(b.queues[kind]) = "reply"
    BY <2>1, QueueHeads
  <2>4. n = [p EXCEPT !.remote = NoRemote]
    BY <2>3 DEF Committed
  <2> HIDE DEF p
  <2>5. NoRemote \in Remotes /\ NoRemote.kind = NoOp /\ RemoteOK(NoRemote)
    <3>1. 0 <= AckEdges + 1 /\ ~(0 > AckEdges)
      BY BasicMessageAssumption
    <3> QED  BY <3>1 DEF NoRemote, Remotes, RemoteOK
  <2>6. n \in Basics /\ n.local = p.local /\ n.queues = p.queues /\ n.remote = NoRemote
    BY <1>6, <2>4, <2>5 DEF Basics
  <2> HIDE DEF n
  <2>7. ASSUME NEW k \in Kinds
        PROVE  n.queues[k] \in QueuesFor(n.local.kind = k /\ ~n.local.sent, n.remote.kind = k)
    <3>1. n.remote.kind # k
      BY <2>5, <2>6, KindsAre
    <3>2. CASE k = kind
      <4>1. n.queues[k] = IF b.queues[kind] = ReplyOnly THEN << >> ELSE RequestOnly
        BY <1>3, <2>1, <2>6, <3>2, QueueTails
      <4>2. b.queues[kind] = ReplyOnly <=> ~(b.local.kind = kind /\ ~b.local.sent)
        BY <2>1, <2>2, Waiting, QueuesDiffer
      <4> QED  BY <1>2, <2>6, <3>1, <3>2, <4>1, <4>2 DEF QueuesFor
    <3>3. CASE k # kind
      BY <1>2, <1>3, <2>2, <2>6, <3>1, <3>3, Waiting DEF QueuesFor
    <3> QED  BY <3>2, <3>3
  <2>8. LocalOK(n.local) /\ RemoteOK(n.remote)
    BY <1>2, <2>5, <2>6 DEF BasicOK
  <2>9. BasicOK(n)
    BY <2>6, <2>7, <2>8 DEF BasicOK
  <2> QED  BY <1>2, <1>8, <2>2, <2>3, <2>6, <2>9 DEF RepliedTo, n
<1> QED  BY <1>7, <1>8

\* A request of this end, behind a reply it owes.
StartedTo(b, kind, upper, n) ==
  /\ BasicOK(n) /\ n.local = [kind |-> kind, upper |-> upper, sent |-> FALSE]
  /\ n.remote = b.remote /\ ~RequestBefore(n)

LEMMA StartOK ==
  ASSUME NEW b, BasicOK(b), NEW kind \in Kinds, NEW upper \in Nat, b.local.kind = NoOp
  PROVE  StartedTo(b, kind, upper, Requested(b, kind, upper))
<1> DEFINE n == Requested(b, kind, upper)
           l == [kind |-> kind, upper |-> upper, sent |-> FALSE]
<1>1. n = [b EXCEPT !.local = l, !.queues[kind] = Append(@, "request")]
  BY DEF Requested
<1>2. b \in Basics /\ b.queues \in [Kinds -> Queues]
  BY BasicTypes DEF BasicOK
<1>3. l \in Locals /\ l.kind = kind /\ l.sent = FALSE /\ LocalOK(l)
  BY KindsAre DEF Locals, LocalOK
<1> HIDE DEF l
<1>4. /\ n.local = l /\ n.remote = b.remote
      /\ n.queues = [b.queues EXCEPT ![kind] = Append(@, "request")]
      /\ n.queues \in [Kinds -> Queues] => n \in Basics
  BY <1>1, <1>2, <1>3 DEF Basics
<1> HIDE DEF n
<1>5. /\ n.queues = [k \in Kinds |-> n.queues[k]]
      /\ \A k \in Kinds : n.queues[k] = IF k = kind THEN Append(b.queues[k], "request")
                                        ELSE b.queues[k]
  BY <1>2, <1>4
<1>6. ASSUME NEW k \in Kinds
      PROVE  /\ n.queues[k] \in QueuesFor(n.local.kind = k /\ ~n.local.sent, n.remote.kind = k)
             /\ n.queues[k] \in Queues /\ n.queues[k] # RequestFirst
  <2>1. b.local.kind # k
    BY KindsAre
  <2>2. CASE b.remote.kind = k
    <3>1. b.queues[k] = ReplyOnly
      BY <2>1, <2>2, Waiting
    <3>2. n.queues[k] = IF k = kind THEN ReplyFirst ELSE ReplyOnly
      BY <1>5, <3>1, QueueAppends
    <3> QED  BY <1>3, <1>4, <2>2, <3>2, QueuesDiffer DEF QueuesFor, Queues
  <2>3. CASE b.remote.kind # k
    <3>1. b.queues[k] = << >>
      BY <2>1, <2>3, Waiting
    <3>2. n.queues[k] = IF k = kind THEN RequestOnly ELSE << >>
      BY <1>5, <3>1, QueueAppends
    <3> QED  BY <1>3, <1>4, <2>3, <3>2, QueuesDiffer DEF QueuesFor, Queues
  <2> QED  BY <2>2, <2>3
<1>7. n \in Basics
  <2>1. n.queues \in [Kinds -> Queues]
    BY <1>5, <1>6
  <2> QED  BY <1>4, <2>1
<1>8. LocalOK(n.local) /\ RemoteOK(n.remote)
  BY <1>3, <1>4 DEF BasicOK
<1>9. BasicOK(n)
  BY <1>6, <1>7, <1>8 DEF BasicOK
<1> QED  BY <1>4, <1>6, <1>9 DEF StartedTo, RequestBefore, n, l

\* What an edge reads.
InputOK(x) ==
  /\ x.valid \in BOOLEAN /\ x.rate \in Nat /\ x.own \in Nat /\ x.arrives \in BOOLEAN
  /\ x.symbols = TRUE /\ x.kind \in Kinds \cup {2}
  /\ x.word.basic \in BOOLEAN /\ x.word.ack \in BOOLEAN /\ x.word.upper \in Nat
  /\ x.limit = NoLimit \/ x.limit \in Nat
  /\ \/ x.take = {} \/ \E k \in Kinds : x.take = {k}
     \/ x.take = {Rate, DeviceId}

LEMMA OpenInputsOK ==
  ASSUME NEW x \in OpenInputs
  PROVE  InputOK(x)
<1>1. x \in AnyInputs
  BY DEF OpenInputs
<1>2. PICK v \in BOOLEAN, k \in Kinds \cup {2}, r \in Rates, own \in Identities, limit \in Limits,
           a \in BOOLEAN, w \in AnyWords, take \in Takes \cup {{Rate, DeviceId}} :
        x = Input(v, k, r, own, limit, a, w, take)
  BY <1>1 DEF AnyInputs
<1>3. /\ x.valid = v /\ x.kind = k /\ x.rate = r /\ x.own = own /\ x.symbols = TRUE
      /\ x.limit = limit /\ x.arrives = a /\ x.word = w /\ x.take = take
  BY <1>2 DEF Input
<1>4. w.basic \in BOOLEAN /\ w.ack \in BOOLEAN /\ w.upper \in Rates
  BY DEF AnyWords
<1>5. Rates \subseteq Nat /\ Identities \subseteq Nat
  BY BasicMessageAssumption
<1> QED  BY <1>3, <1>4, <1>5 DEF InputOK, Takes, Limits

\* The one kind that is taken, if one is.
LEMMA TakenAre ==
  ASSUME NEW x, InputOK(x)
  PROVE  /\ Cardinality(x.take) = 1 <=> \E k \in Kinds : x.take = {k}
         /\ \A k \in Kinds : x.take = {k} => (CHOOSE q \in x.take : TRUE) = k
<1>1. CASE x.take = {}
  BY <1>1, FS_EmptySet
<1>2. CASE \E k \in Kinds : x.take = {k}
  BY <1>2, FS_Singleton
<1>3. CASE x.take = {Rate, DeviceId}
  <2>1. Rate # DeviceId
    BY DEF Rate, DeviceId
  <2>2. Cardinality({Rate, DeviceId}) = 2
    <3>1. IsFiniteSet({Rate}) /\ Cardinality({Rate}) = 1
      BY FS_Singleton
    <3>2. Cardinality({Rate} \cup {DeviceId}) = Cardinality({Rate}) + 1
      BY <2>1, <3>1, FS_AddElement
    <3>3. {Rate} \cup {DeviceId} = {Rate, DeviceId}
      OBVIOUS
    <3> QED  BY <3>1, <3>2, <3>3
  <2> QED  BY <1>3, <2>1, <2>2
<1> QED  BY <1>1, <1>2, <1>3 DEF InputOK

\* What an edge does to the endpoint, said by what it shows.
EdgeResult(b, x, e) ==
  /\ BasicOK(e.next)
  /\ e.next.local = IF e.start THEN [kind |-> x.kind, upper |-> RequestUpper(x), sent |-> FALSE]
                    ELSE IF e.verdict = "ack" THEN NoLocal
                    ELSE IF e.commit THEN [kind |-> b.local.kind, upper |-> b.local.upper,
                                           sent |-> TRUE]
                    ELSE b.local
  /\ e.next.remote = IF e.verdict = "request" THEN NewRemote(x.word, x.own)
                     ELSE IF e.reply THEN NoRemote ELSE Advanced(b).remote
  /\ RequestBefore(e.next) <=>
       /\ ~e.start
       /\ IF e.verdict = "request" THEN b.local.kind = x.word.kind /\ ~b.local.sent /\ ~e.commit
          ELSE ~e.commit /\ ~e.reply /\ RequestBefore(b)

\* What it shows.
EdgeShows(b, x, e) ==
  /\ e.start \in BOOLEAN /\ e.commit \in BOOLEAN /\ e.reply \in BOOLEAN
  /\ e.start <=> x.valid /\ LocalReady(b, x)
  /\ e.commit <=> \E k \in Kinds : /\ x.take = {k} /\ k \in Offers(Advanced(b), x.limit)
                                   /\ Head(b.queues[k]) = "request"
  /\ e.reply <=> \E k \in Kinds : /\ x.take = {k} /\ k \in Offers(Advanced(b), x.limit)
                                  /\ Head(b.queues[k]) = "reply"
  /\ e.commit => b.local.kind \in Kinds /\ ~b.local.sent
  /\ e.reply => b.remote.kind \in Kinds
  /\ e.verdict =
       IF ~x.arrives THEN "none"
       ELSE IF ~x.word.basic \/ x.word.kind \notin Kinds \cup {NoOp} THEN "unhandled"
       ELSE IF x.word.kind = NoOp THEN "noop"
       ELSE IF ~Supported(x.word) THEN "unsupported"
       ELSE IF x.word.ack
            THEN IF b.local.sent /\ b.local.kind = x.word.kind THEN "ack" ELSE "unmatched_ack"
            ELSE IF b.remote.kind # NoOp /\ ~e.reply THEN "remote_overlap" ELSE "request"

LEMMA EdgeIs ==
  ASSUME NEW b, BasicOK(b), NEW x, InputOK(x)
  PROVE  EdgeResult(b, x, Edge(b, x)) /\ EdgeShows(b, x, Edge(b, x))
<1> DEFINE now == Advanced(b)
           offers == Offers(now, x.limit)
           takes == Cardinality(x.take) = 1 /\ x.take \subseteq offers
           kind == CHOOSE k \in x.take : TRUE
           reply == takes /\ Head(now.queues[kind]) = "reply"
           answered == IF x.arrives /\ AckFirst(x) THEN Received(now, x.word, x.own) ELSE now
           committed == IF takes THEN Committed(answered, kind) ELSE answered
           verdict == IF ~x.arrives THEN "none"
                      ELSE Verdict(IF AckFirst(x) THEN now ELSE committed, x.word)
           received == IF x.arrives /\ ~AckFirst(x) THEN Received(committed, x.word, x.own)
                       ELSE committed
           start == x.valid /\ LocalReady(b, x)
           e == Edge(b, x)
<1>1. /\ e.next = IF start THEN Requested(received, x.kind, RequestUpper(x)) ELSE received
      /\ e.start = start /\ e.commit = (takes /\ ~reply) /\ e.reply = reply
      /\ e.verdict = verdict
  BY DEF Edge
<1>2. BasicOK(now) /\ now.local = b.local /\ now.queues = b.queues /\ now.remote.kind = b.remote.kind
  BY AdvancedOK
<1>3. takes => /\ kind \in Kinds /\ x.take = {kind} /\ kind \in offers /\ b.queues[kind] # << >>
  BY <1>2, TakenAre DEF Offers
<1>4. \A k \in Kinds : x.take = {k} /\ k \in offers => takes /\ kind = k
  BY TakenAre
<1>5. x.own \in Nat /\ x.word.upper \in Nat
  BY DEF InputOK
<1>6. AckFirst(x) => verdict \in {"none", "unhandled", "unsupported", "ack", "unmatched_ack"}
  BY VerdictIs DEF AckFirst
<1>7. ~AckFirst(x) => verdict # "ack" /\ verdict # "unmatched_ack"
  BY VerdictIs, KindsAre DEF AckFirst, Supported
<1>8. /\ verdict = "ack" => AckedTo(now, answered) /\ b.local.sent
      /\ verdict # "ack" => answered = now
  <2>1. CASE x.arrives /\ AckFirst(x)
    <3>1. verdict = Verdict(now, x.word) /\ answered = Received(now, x.word, x.own)
      BY <2>1
    <3>2. verdict # "ack" => answered = now
      BY <1>6, <2>1, <3>1 DEF Received
    <3> HIDE DEF now, verdict, answered
    <3> QED  BY <1>2, <3>1, <3>2, AckOK
  <2>2. CASE ~(x.arrives /\ AckFirst(x))
    BY <1>7, <2>2
  <2> QED  BY <2>1, <2>2
<1>9. BasicOK(answered) /\ answered.queues = b.queues /\ answered.remote = now.remote
      /\ answered.local = IF verdict = "ack" THEN NoLocal ELSE b.local
  BY <1>2, <1>8 DEF AckedTo
<1>10. /\ takes /\ ~reply => SentTo(answered, committed) /\ answered.local.kind = kind
                             /\ ~answered.local.sent /\ Head(b.queues[kind]) = "request"
       /\ reply => /\ RepliedTo(answered, committed) /\ answered.remote.kind = kind
                   /\ Head(b.queues[kind]) = "reply"
       /\ ~takes => committed = answered
  <2>1. CASE takes
    <3>1. committed = Committed(answered, kind)
      BY <2>1
    <3> HIDE DEF answered, committed, kind
    <3>2. /\ Head(answered.queues[kind]) = "request" =>
               /\ SentTo(answered, committed)
               /\ answered.local.kind = kind /\ ~answered.local.sent
          /\ Head(answered.queues[kind]) # "request" =>
               /\ RepliedTo(answered, committed) /\ Head(answered.queues[kind]) = "reply"
               /\ answered.remote.kind = kind
      BY <1>3, <1>9, <2>1, <3>1, CommitOK
    <3> QED  BY <1>2, <1>9, <2>1, <3>2, QueueHeads
  <2>2. CASE ~takes
    BY <2>2
  <2> QED  BY <2>1, <2>2
<1> DEFINE commit == takes /\ ~reply
<1>11. /\ commit => b.local.kind \in Kinds /\ ~b.local.sent /\ verdict # "ack"
       /\ reply => b.remote.kind \in Kinds
       /\ reply => takes
  <2> HIDE DEF now, offers, answered, committed, verdict, kind
  <2>1. NoLocal.kind = NoOp
    BY DEF NoLocal
  <2> QED  BY <1>2, <1>3, <1>9, <1>10, <2>1, KindsAre
<1>12. /\ BasicOK(committed)
       /\ committed.local = IF verdict = "ack" THEN NoLocal
                            ELSE IF commit THEN [kind |-> b.local.kind, upper |-> b.local.upper,
                                                 sent |-> TRUE]
                            ELSE b.local
       /\ committed.remote = IF reply THEN NoRemote ELSE now.remote
       /\ RequestBefore(committed) <=> ~commit /\ ~reply /\ RequestBefore(b)
  <2>1. CASE commit
    <3>1. SentTo(answered, committed) /\ verdict # "ack"
      BY <1>10, <1>11, <2>1
    <3> HIDE DEF now, offers, takes, answered, committed, verdict, reply, kind
    <3>2. committed.local \in Locals /\ committed.local.sent \in BOOLEAN
      BY <3>1, BasicTypes DEF SentTo
    <3>3. /\ committed.local.kind = b.local.kind /\ committed.local.upper = b.local.upper
          /\ committed.local.sent = TRUE /\ committed.remote = now.remote /\ BasicOK(committed)
      BY <1>9, <3>1, <3>2 DEF SentTo
    <3>4. committed.local = [kind |-> b.local.kind, upper |-> b.local.upper, sent |-> TRUE]
      BY <3>2, <3>3 DEF Locals
    <3>5. ~RequestBefore(committed)
      BY <3>3, OrderOfOne
    <3> QED  BY <1>11, <2>1, <3>1, <3>3, <3>4, <3>5
  <2>2. CASE reply
    <3>1. RepliedTo(answered, committed)
      BY <1>10, <2>2
    <3> HIDE DEF now, offers, takes, answered, committed, verdict, reply, kind
    <3>2. BasicOK(committed) /\ committed.local = answered.local /\ committed.remote = NoRemote
      BY <3>1 DEF RepliedTo
    <3>3. ~RequestBefore(committed)
      BY <3>2, OrderOfOne, KindsAre DEF NoRemote
    <3> QED  BY <1>9, <2>2, <3>2, <3>3
  <2>3. CASE ~commit /\ ~reply
    <3>1. committed = answered
      BY <1>10, <2>3
    <3> HIDE DEF now, offers, takes, answered, committed, verdict, reply, kind
    <3> QED  BY <1>9, <2>3, <3>1 DEF RequestBefore
  <2> QED  BY <2>1, <2>2, <2>3
<1>13. /\ verdict = "request" => RequestedTo(committed, x.word, x.own, received)
       /\ verdict # "request" => received = committed
  <2>1. CASE x.arrives /\ ~AckFirst(x)
    <3>1. verdict = Verdict(committed, x.word) /\ received = Received(committed, x.word, x.own)
      BY <2>1
    <3>2. verdict # "request" => received = committed
      BY <1>7, <2>1, <3>1 DEF Received
    <3> HIDE DEF committed, verdict, received
    <3> QED  BY <1>5, <1>12, <3>1, <3>2, RequestOK
  <2>2. CASE ~(x.arrives /\ ~AckFirst(x))
    BY <1>6, <2>2
  <2> QED  BY <2>1, <2>2
<1>14. verdict = "request" => ~AckFirst(x)
  BY <1>6
<1>15. verdict =
       IF ~x.arrives THEN "none"
       ELSE IF ~x.word.basic \/ x.word.kind \notin Kinds \cup {NoOp} THEN "unhandled"
       ELSE IF x.word.kind = NoOp THEN "noop"
       ELSE IF ~Supported(x.word) THEN "unsupported"
       ELSE IF x.word.ack
            THEN IF b.local.sent /\ b.local.kind = x.word.kind THEN "ack" ELSE "unmatched_ack"
            ELSE IF b.remote.kind # NoOp /\ ~reply THEN "remote_overlap" ELSE "request"
  <2>1. CASE ~x.arrives
    BY <2>1
  <2>2. CASE x.arrives /\ AckFirst(x)
    <3>1. verdict = Verdict(now, x.word)
      BY <2>2
    <3> HIDE DEF now, verdict, reply
    <3> QED  BY <1>2, <2>2, <3>1, VerdictIs DEF AckFirst
  <2>3. CASE x.arrives /\ ~AckFirst(x)
    <3>1. verdict = Verdict(committed, x.word)
      BY <2>3
    <3>2. committed.remote.kind # NoOp <=> b.remote.kind # NoOp /\ ~reply
      BY <1>2, <1>12 DEF NoRemote
    <3> HIDE DEF now, verdict, reply, committed
    <3> QED  BY <2>3, <3>1, <3>2, VerdictIs, KindsAre DEF AckFirst, Supported
  <2> QED  BY <2>1, <2>2, <2>3
<1>16. start => b.local.kind = NoOp /\ x.kind \in Kinds /\ verdict # "ack" /\ ~commit
  <2>1. start => b.local.kind = NoOp /\ x.kind \in Kinds
    BY DEF LocalReady
  <2>2. b.local.kind = NoOp => ~b.local.sent
    BY BasicTypes
  <2> HIDE DEF start, verdict, commit
  <2> QED  BY <1>8, <1>11, <2>1, <2>2, KindsAre
<1>17. RequestUpper(x) \in Nat
  BY DEF InputOK, RequestUpper, IdentityUpper
<1>18. commit <=> \E k \in Kinds : x.take = {k} /\ k \in offers /\ Head(b.queues[k]) = "request"
  <2> HIDE DEF offers, kind, now, answered, committed
  <2>1. commit => Head(b.queues[kind]) = "request"
    BY <1>10
  <2>2. reply => Head(b.queues[kind]) = "reply"
    BY <1>10
  <2> HIDE DEF takes, reply
  <2> QED  BY <1>3, <1>4, <1>11, <2>1, <2>2, QueueHeads
<1>19. reply <=> \E k \in Kinds : x.take = {k} /\ k \in offers /\ Head(b.queues[k]) = "reply"
  <2> HIDE DEF offers, kind, now, answered, committed
  <2>1. commit => Head(b.queues[kind]) = "request"
    BY <1>10
  <2>2. reply => Head(b.queues[kind]) = "reply"
    BY <1>10
  <2> HIDE DEF takes, reply
  <2> QED  BY <1>3, <1>4, <1>11, <2>1, <2>2, QueueHeads
<1>20. e.start \in BOOLEAN /\ e.commit \in BOOLEAN /\ e.reply \in BOOLEAN
  <2>1. start \in BOOLEAN
    BY DEF InputOK
  <2> QED  BY <1>1, <2>1
<1>21. EdgeShows(b, x, e)
  <2> HIDE DEF e, verdict, takes, reply, kind, committed, answered, received
  <2> QED  BY <1>1, <1>11, <1>15, <1>18, <1>19, <1>20 DEF EdgeShows
<1>22. /\ BasicOK(received) /\ received.local = committed.local
       /\ received.remote = IF verdict = "request" THEN NewRemote(x.word, x.own)
                            ELSE committed.remote
       /\ RequestBefore(received) <=>
            IF verdict = "request" THEN committed.local.kind = x.word.kind /\ ~committed.local.sent
            ELSE RequestBefore(committed)
  <2> HIDE DEF verdict, committed, received
  <2> QED  BY <1>12, <1>13 DEF RequestedTo
<1>23. EdgeResult(b, x, e)
  <2> HIDE DEF now, offers, takes, kind, reply, answered, committed, verdict, received, commit
  <2>1. verdict = "request" => (committed.local.kind = x.word.kind /\ ~committed.local.sent
                                  <=> b.local.kind = x.word.kind /\ ~b.local.sent /\ ~commit)
    BY <1>12
  <2>2. e.commit = commit
    BY <1>1 DEF commit
  <2>3. CASE start
    <3>1. received.local.kind = NoOp
      BY <1>12, <1>16, <1>22, <2>3
    <3>2. StartedTo(received, x.kind, RequestUpper(x), e.next)
      <4> HIDE DEF e
      <4> QED  BY <1>1, <1>16, <1>17, <1>22, <2>3, <3>1, StartOK
    <3> HIDE DEF e
    <3>3. e.start = TRUE /\ e.reply = reply /\ e.verdict = verdict
      BY <1>1, <1>20, <2>3
    <3>4. BasicOK(e.next) /\ e.next.remote = received.remote /\ ~RequestBefore(e.next)
          /\ e.next.local = [kind |-> x.kind, upper |-> RequestUpper(x), sent |-> FALSE]
      BY <3>2 DEF StartedTo
    <3>5. e.next.remote = IF verdict = "request" THEN NewRemote(x.word, x.own)
                          ELSE IF reply THEN NoRemote ELSE now.remote
      BY <1>12, <1>22, <3>4
    <3> QED  BY <3>3, <3>4, <3>5 DEF EdgeResult, now
  <2>4. CASE ~start
    <3>1. e.next = received
      BY <1>1, <2>4
    <3> HIDE DEF e
    <3>2. e.start = FALSE /\ e.reply = reply /\ e.verdict = verdict
      BY <1>1, <1>20, <2>4
    <3>3. e.next.remote = IF verdict = "request" THEN NewRemote(x.word, x.own)
                          ELSE IF reply THEN NoRemote ELSE now.remote
      BY <1>12, <1>22, <3>1
    <3>4. e.next.local = IF verdict = "ack" THEN NoLocal
                         ELSE IF commit THEN [kind |-> b.local.kind, upper |-> b.local.upper,
                                              sent |-> TRUE]
                         ELSE b.local
      BY <1>12, <1>22, <3>1
    <3>5. RequestBefore(e.next) <=>
            IF verdict = "request" THEN b.local.kind = x.word.kind /\ ~b.local.sent /\ ~commit
            ELSE ~commit /\ ~reply /\ RequestBefore(b)
      BY <1>12, <1>22, <2>1, <3>1
    <3> QED  BY <1>22, <2>2, <3>1, <3>2, <3>3, <3>4, <3>5 DEF EdgeResult, now
  <2> QED  BY <2>3, <2>4
<1> QED  BY <1>21, <1>23

-------------------------------------------------------------------------------
(* The circuit.                                                                *)

\* The registers r stand for b.
StandsFor(r, b) ==
  /\ r.local_busy = (b.local.kind # NoOp) /\ r.local_sent = b.local.sent
  /\ b.local.kind # NoOp => r.local_kind = b.local.kind
  /\ r.local_upper = b.local.upper
  /\ r.remote_busy = (b.remote.kind # NoOp)
  /\ b.remote.kind # NoOp => r.remote_kind = b.remote.kind
  /\ r.remote_upper = b.remote.upper /\ r.remote_rate = b.remote.rate
  /\ r.local_first = RequestBefore(b)
  /\ r.age = (IF b.remote.age > AckEdges THEN AckEdges ELSE b.remote.age)
  /\ r.missed = b.remote.missed

LEMMA RegistersStand ==
  ASSUME NEW b, NEW stale
  PROVE  StandsFor(RegistersOf(b, stale), b)
BY DEF StandsFor, RegistersOf, RequestBefore, RequestFirst

\* The heads of the queues are those the registers name.
RequestHead(b, k) == b.queues[k] # << >> /\ Head(b.queues[k]) = "request"
ReplyHead(b, k) == b.queues[k] # << >> /\ Head(b.queues[k]) = "reply"

LEMMA HeadsAre ==
  ASSUME NEW b, BasicOK(b), NEW r, StandsFor(r, b), NEW k \in Kinds
  PROVE  /\ RequestHead(b, k) <=> LocalHead(r) /\ r.local_kind = k
         /\ ReplyHead(b, k) <=> RemoteHead(r) /\ r.remote_kind = k
         /\ b.queues[k] # << >> => RequestHead(b, k) \/ ReplyHead(b, k)
         /\ RequestHead(b, k) => b.local.kind = k
         /\ ReplyHead(b, k) => b.remote.kind = k
<1>1. /\ r.local_busy = (b.local.kind # NoOp) /\ r.local_sent = b.local.sent
      /\ b.local.kind # NoOp => r.local_kind = b.local.kind
      /\ r.remote_busy = (b.remote.kind # NoOp)
      /\ b.remote.kind # NoOp => r.remote_kind = b.remote.kind
      /\ r.local_first = RequestBefore(b)
  BY DEF StandsFor
<1>2. b.local.kind \in Kinds \cup {NoOp} /\ b.remote.kind \in Kinds \cup {NoOp} /\ k # NoOp
  BY BasicTypes, KindsAre
<1>3. CASE b.local.kind = k /\ ~b.local.sent /\ b.remote.kind = k
  <2>1. RequestBefore(b) <=> b.queues[k] = RequestFirst
    BY <1>3, OrderOfOne DEF RequestBefore
  <2>2. b.queues[k] = RequestFirst \/ b.queues[k] = ReplyFirst
    BY <1>3, Waiting
  <2> QED  BY <1>1, <1>2, <1>3, <2>1, <2>2, QueueHeads, QueuesDiffer
           DEF RequestHead, ReplyHead, LocalHead, RemoteHead, SameKind
<1>4. CASE b.local.kind = k /\ ~b.local.sent /\ b.remote.kind # k
  <2>1. b.queues[k] = RequestOnly
    BY <1>4, Waiting
  <2> QED  BY <1>1, <1>2, <1>4, <2>1, QueueHeads, QueuesDiffer
           DEF RequestHead, ReplyHead, LocalHead, RemoteHead, SameKind
<1>5. CASE ~(b.local.kind = k /\ ~b.local.sent) /\ b.remote.kind = k
  <2>1. b.queues[k] = ReplyOnly
    BY <1>5, Waiting
  <2> QED  BY <1>1, <1>2, <1>5, <2>1, QueueHeads, QueuesDiffer
           DEF RequestHead, ReplyHead, LocalHead, RemoteHead, SameKind
<1>6. CASE ~(b.local.kind = k /\ ~b.local.sent) /\ b.remote.kind # k
  <2>1. b.queues[k] = << >>
    BY <1>6, Waiting
  <2> QED  BY <1>1, <1>2, <1>6, <2>1
           DEF RequestHead, ReplyHead, LocalHead, RemoteHead, SameKind
<1> QED  BY <1>3, <1>4, <1>5, <1>6

\* The kinds at the heads, and what is offered of them.
LocalSet(r) == {k \in Kinds : LocalHead(r) /\ r.local_kind = k}
ReplySet(r) == {k \in Kinds : RemoteHead(r) /\ r.remote_kind = k}
RemoteSet(r, limit) == {k \in ReplySet(r) : k = Rate => RemoteReady(r, limit)}

LEMMA OffersAre ==
  ASSUME NEW b, BasicOK(b), NEW r, StandsFor(r, b), NEW limit
  PROVE  /\ Offers(Advanced(b), limit) = LocalSet(r) \cup RemoteSet(r, limit)
         /\ \A k \in Kinds : RequestHead(b, k) <=> k \in LocalSet(r)
         /\ \A k \in Kinds : ReplyHead(b, k) <=> k \in ReplySet(r)
<1> DEFINE now == Advanced(b)
<1>1. now.queues = b.queues /\ now.remote.rate = b.remote.rate
  BY AdvancedOK
<1>2. r.remote_rate = b.remote.rate
  BY DEF StandsFor
<1> HIDE DEF now
<1>3. ASSUME NEW k \in Kinds
      PROVE  /\ RequestHead(b, k) <=> k \in LocalSet(r)
             /\ ReplyHead(b, k) <=> k \in ReplySet(r)
             /\ k \in Offers(now, limit) <=> k \in LocalSet(r) \cup RemoteSet(r, limit)
  <2>1. /\ RequestHead(b, k) <=> k \in LocalSet(r)
        /\ ReplyHead(b, k) <=> k \in ReplySet(r)
        /\ b.queues[k] # << >> => RequestHead(b, k) \/ ReplyHead(b, k)
    BY HeadsAre DEF LocalSet, ReplySet
  <2>2. k \in ReplySet(r) => r.remote_kind = k
    BY DEF ReplySet
  <2>3. k \in Offers(now, limit) <=> b.queues[k] # << >> /\ Eligible(now, k, limit)
    BY <1>1 DEF Offers
  <2>4. Eligible(now, k, limit) <=>
          (Head(b.queues[k]) = "reply" /\ k = Rate => limit # NoLimit /\ limit <= r.remote_rate)
    BY <1>1, <1>2 DEF Eligible
  <2>5. k \in RemoteSet(r, limit) <=>
          k \in ReplySet(r) /\ (k = Rate => limit # NoLimit /\ limit <= r.remote_rate)
    BY <2>2 DEF RemoteSet, RemoteReady
  <2> QED  BY <2>1, <2>3, <2>4, <2>5, QueueHeads DEF RequestHead, ReplyHead
<1>4. Offers(now, limit) \subseteq Kinds
  BY DEF Offers
<1>5. LocalSet(r) \cup RemoteSet(r, limit) \subseteq Kinds
  BY DEF LocalSet, RemoteSet, ReplySet
<1> QED  BY <1>3, <1>4, <1>5 DEF now

\* What the circuit shows, said with the sets of heads.
CircuitShows(hw, r, x) ==
  LET local == LocalSet(r)
      reply_head == ReplySet(r)
      remote == RemoteSet(r, x.limit)
      onehot == Cardinality(x.take) = 1
      takes_reply == onehot /\ x.take \cap reply_head # {}
      supported == x.arrives /\ Supported(x.word)
      done == supported /\ x.word.ack /\ r.local_busy /\ r.local_sent /\ x.word.kind = r.local_kind
      unmatched == supported /\ x.word.ack /\ ~done
      request == supported /\ ~x.word.ack /\ (~r.remote_busy \/ hw.reply)
      overlap == supported /\ ~x.word.ack /\ r.remote_busy /\ ~hw.reply
      basic == x.arrives /\ x.word.basic
      stray == x.valid /\ x.kind \notin Kinds
      q == hw.registers
      late == r.remote_busy /\ ~r.missed /\ r.age = AckEdges
  IN  /\ hw.ready <=> ~r.local_busy /\ x.kind \in Kinds /\ (x.kind = TxReady => Folding /\ x.symbols)
      /\ hw.start <=> x.valid /\ hw.ready
      /\ hw.commit <=> onehot /\ x.take \cap local # {}
      /\ hw.reply <=> takes_reply /\ RemoteReady(r, x.limit)
      /\ hw.verdicts = {v \in {"ack", "unmatched_ack", "request", "remote_overlap", "noop",
                               "unhandled", "unsupported"} :
                          CASE v = "ack" -> done
                            [] v = "unmatched_ack" -> unmatched
                            [] v = "request" -> request
                            [] v = "remote_overlap" -> overlap
                            [] v = "noop" -> basic /\ x.word.kind = NoOp
                            [] v = "unhandled" ->
                                 x.arrives /\ (~basic \/ x.word.kind \notin Kinds \cup {NoOp})
                            [] v = "unsupported" -> basic /\ x.word.kind = TxReady /\ ~Folding}
      /\ hw.learns = IF \/ (request /\ x.word.kind = Rate)
                        \/ ((request \/ done) /\ x.word.kind \in {DeviceId, Port})
                     THEN [kind |-> x.word.kind, upper |-> x.word.upper]
                     ELSE [kind |-> NoOp, upper |-> 0]
      /\ hw.missed <=> late
      /\ hw.error <=>
           \/ x.take # {} /\ (~onehot \/ ~(x.take \subseteq local \cup reply_head))
           \/ stray \/ unmatched
           \/ supported /\ ~x.word.ack /\ r.remote_busy /\ ~takes_reply
           \/ /\ ~RemoteReady(r, x.limit)
              /\ \/ x.take # {} /\ (~onehot \/ ~(x.take \subseteq local))
                 \/ supported /\ ~x.word.ack /\ r.remote_busy

\* The words that the circuit joins on its output.
JoinedWords(r, limit) ==
  [k \in LocalSet(r) \cup RemoteSet(r, limit) |->
     {Word(k, FALSE, r.local_upper) : q \in LocalSet(r) \cap {k}}
     \cup {Word(k, TRUE, IF k \in {DeviceId, Port} THEN r.remote_upper ELSE 0) :
             q \in RemoteSet(r, limit) \cap {k}}]

\* Its registers after the edge.
CircuitNext(q, hw, r, x, done, request) ==
  /\ q.local_busy \in BOOLEAN /\ q.local_sent \in BOOLEAN /\ q.remote_busy \in BOOLEAN
  /\ q.local_first \in BOOLEAN /\ q.missed \in BOOLEAN
  /\ q.local_busy <=> hw.start \/ (r.local_busy /\ ~done)
  /\ q.local_sent <=> ~hw.start /\ ~done /\ (r.local_sent \/ hw.commit)
  /\ q.local_kind = IF hw.start THEN x.kind ELSE r.local_kind
  /\ q.local_upper = IF hw.start THEN RequestUpper(x) ELSE r.local_upper
  /\ q.remote_busy <=> request \/ (r.remote_busy /\ ~hw.reply)
  /\ q.remote_kind = IF request THEN x.word.kind ELSE r.remote_kind
  /\ q.remote_upper = IF request THEN IdentityUpper(x.word.kind, x.own) ELSE r.remote_upper
  /\ q.remote_rate = IF request THEN x.word.upper ELSE r.remote_rate
  /\ q.local_first <=> IF request THEN LocalFirst(r, hw.commit) ELSE r.local_first /\ ~hw.start
  /\ q.age = IF request \/ hw.reply \/ ~r.remote_busy THEN 0
             ELSE IF r.age # AckEdges THEN r.age + 1 ELSE r.age
  /\ q.missed <=> /\ ~request /\ ~hw.reply
                  /\ r.missed \/ (r.remote_busy /\ ~r.missed /\ r.age = AckEdges)
  /\ DOMAIN q = {"local_busy", "local_sent", "local_kind", "local_upper", "remote_busy",
                 "remote_kind", "remote_upper", "remote_rate", "local_first", "age", "missed"}

HwDone(r, x) ==
  /\ x.arrives /\ Supported(x.word) /\ x.word.ack
  /\ r.local_busy /\ r.local_sent /\ x.word.kind = r.local_kind
HwRequest(hw, r, x) ==
  x.arrives /\ Supported(x.word) /\ ~x.word.ack /\ (~r.remote_busy \/ hw.reply)

LEMMA CircuitIs ==
  ASSUME NEW r, NEW x
  PROVE  /\ CircuitShows(HwBasic(r, x), r, x)
         /\ HwBasic(r, x).words = JoinedWords(r, x.limit)
         /\ CircuitNext(HwBasic(r, x).registers, HwBasic(r, x), r, x,
                        HwDone(r, x), HwRequest(HwBasic(r, x), r, x))
         /\ HwBasic(r, x).pending = r.local_busy
         /\ HwBasic(r, x).waiting = (r.local_busy /\ r.local_sent)
         /\ HwBasic(r, x).owes = r.remote_busy
<1> DEFINE hw == HwBasic(r, x)
<1>1. hw.words = JoinedWords(r, x.limit)
  BY DEF HwBasic, JoinedWords, LocalSet, RemoteSet, ReplySet
<1>2. /\ hw.pending = r.local_busy
      /\ hw.waiting = (r.local_busy /\ r.local_sent)
      /\ hw.owes = r.remote_busy
  BY DEF HwBasic
<1> DEFINE onehot == Cardinality(x.take) = 1
           done == HwDone(r, x)
           local == LocalSet(r)
           reply_head == ReplySet(r)
           takes_reply == onehot /\ x.take \cap reply_head # {}
           supported == x.arrives /\ Supported(x.word)
           unmatched == supported /\ x.word.ack /\ ~done
           request == HwRequest(hw, r, x)
           overlap == supported /\ ~x.word.ack /\ r.remote_busy /\ ~hw.reply
           basic == x.arrives /\ x.word.basic
           stray == x.valid /\ x.kind \notin Kinds
           late == r.remote_busy /\ ~r.missed /\ r.age = AckEdges
<1>3. hw.ready <=> ~r.local_busy /\ x.kind \in Kinds /\ (x.kind = TxReady => Folding /\ x.symbols)
  BY DEF HwBasic
<1>4. hw.start <=> x.valid /\ hw.ready
  BY DEF HwBasic
<1>5. hw.commit <=> onehot /\ x.take \cap local # {}
  BY DEF HwBasic, LocalSet
<1>6. hw.reply <=> takes_reply /\ RemoteReady(r, x.limit)
  BY DEF HwBasic, ReplySet
<1>7. hw.missed <=> late
  BY DEF HwBasic
<1>8. hw.error <=>
           \/ x.take # {} /\ (~onehot \/ ~(x.take \subseteq local \cup reply_head))
           \/ stray \/ unmatched
           \/ supported /\ ~x.word.ack /\ r.remote_busy /\ ~takes_reply
           \/ /\ ~RemoteReady(r, x.limit)
              /\ \/ x.take # {} /\ (~onehot \/ ~(x.take \subseteq local))
                 \/ supported /\ ~x.word.ack /\ r.remote_busy
  <2> DEFINE local0 == {k \in Kinds : LocalHead(r) /\ r.local_kind = k}
             reply_head0 == {k \in Kinds : RemoteHead(r) /\ r.remote_kind = k}
             takes0 == onehot /\ x.take \cap reply_head0 # {}
             supported0 == /\ x.arrives /\ x.word.basic
                           /\ x.word.kind \in Kinds /\ (x.word.kind = TxReady => Folding)
             done0 == supported0 /\ x.word.ack /\ r.local_busy /\ r.local_sent
                      /\ x.word.kind = r.local_kind
             unmatched0 == supported0 /\ x.word.ack /\ ~done0
             ready0 == \/ x.take # {} /\ (~onehot \/ ~(x.take \subseteq local0 \cup reply_head0))
                       \/ stray \/ unmatched0
                       \/ supported0 /\ ~x.word.ack /\ r.remote_busy /\ ~takes0
             blocked0 == \/ x.take # {} /\ (~onehot \/ ~(x.take \subseteq local0))
                         \/ stray \/ unmatched0
                         \/ supported0 /\ ~x.word.ack /\ r.remote_busy
  <2>1. hw.error = (ready0 \/ (~RemoteReady(r, x.limit) /\ blocked0))
    BY DEF HwBasic
  <2>2. /\ local0 = local /\ reply_head0 = reply_head
    BY DEF ReplySet, LocalSet
  <2>3. (supported0 <=> supported) /\ (done0 <=> done)
    BY DEF HwDone, Supported
  <2> HIDE DEF hw, local0, reply_head0, supported0, done0, local, reply_head, supported, done
  <2> QED  BY <2>1, <2>2, <2>3
<1>9. hw.verdicts = {v \in {"ack", "unmatched_ack", "request", "remote_overlap", "noop",
                               "unhandled", "unsupported"} :
                          CASE v = "ack" -> done
                            [] v = "unmatched_ack" -> unmatched
                            [] v = "request" -> request
                            [] v = "remote_overlap" -> overlap
                            [] v = "noop" -> basic /\ x.word.kind = NoOp
                            [] v = "unhandled" ->
                                 x.arrives /\ (~basic \/ x.word.kind \notin Kinds \cup {NoOp})
                            [] v = "unsupported" -> basic /\ x.word.kind = TxReady /\ ~Folding}
  BY DEF HwBasic, ReplySet, LocalSet, HwDone, HwRequest, Supported
<1>10. hw.learns = IF \/ (request /\ x.word.kind = Rate)
                      \/ ((request \/ done) /\ x.word.kind \in {DeviceId, Port})
                     THEN [kind |-> x.word.kind, upper |-> x.word.upper]
                     ELSE [kind |-> NoOp, upper |-> 0]
  BY ZenonT(40) DEF HwBasic, HwDone, HwRequest, Supported
<1>11. CircuitShows(hw, r, x)
  <2> HIDE DEF hw
  <2> QED  BY <1>3, <1>4, <1>5, <1>6, <1>7, <1>8, <1>9, <1>10 DEF CircuitShows, HwDone, HwRequest
<1>12. CircuitNext(hw.registers, hw, r, x, HwDone(r, x), HwRequest(hw, r, x))
  <2> DEFINE q == hw.registers
  <2>1. /\ q.local_busy = (hw.start \/ (r.local_busy /\ ~done))
        /\ q.local_sent = (~hw.start /\ ~done /\ (r.local_sent \/ hw.commit))
        /\ q.local_kind = IF hw.start THEN x.kind ELSE r.local_kind
        /\ q.local_upper = IF hw.start THEN RequestUpper(x) ELSE r.local_upper
    BY DEF HwBasic, HwDone, Supported
  <2>2. /\ q.remote_busy = (request \/ (r.remote_busy /\ ~hw.reply))
        /\ q.remote_kind = IF request THEN x.word.kind ELSE r.remote_kind
        /\ q.remote_upper = IF request THEN IdentityUpper(x.word.kind, x.own) ELSE r.remote_upper
        /\ q.remote_rate = IF request THEN x.word.upper ELSE r.remote_rate
    BY DEF HwBasic, HwRequest, Supported
  <2>3. q.local_first = IF request THEN LocalFirst(r, hw.commit) ELSE r.local_first /\ ~hw.start
    BY DEF HwBasic, HwRequest, Supported
  <2>4. q.age = IF request \/ hw.reply \/ ~r.remote_busy THEN 0
             ELSE IF r.age # AckEdges THEN r.age + 1 ELSE r.age
    BY DEF HwBasic, HwRequest, Supported
  <2>5. q.missed = (~request /\ ~hw.reply /\ (r.missed \/ late))
    BY DEF HwBasic, HwRequest, Supported
  <2>6. DOMAIN q = {"local_busy", "local_sent", "local_kind", "local_upper", "remote_busy",
                 "remote_kind", "remote_upper", "remote_rate", "local_first", "age", "missed"}
    BY DEF HwBasic
  <2> HIDE DEF q, hw
  <2>7. q.local_first \in BOOLEAN
    BY <2>3 DEF LocalFirst
  <2>8. /\ q.local_busy \in BOOLEAN /\ q.local_sent \in BOOLEAN
        /\ q.local_busy <=> hw.start \/ (r.local_busy /\ ~done)
        /\ q.local_sent <=> ~hw.start /\ ~done /\ (r.local_sent \/ hw.commit)
    BY <2>1
  <2>9. q.remote_busy \in BOOLEAN /\ (q.remote_busy <=> request \/ (r.remote_busy /\ ~hw.reply))
    BY <2>2
  <2>10. q.missed \in BOOLEAN /\ (q.missed <=> ~request /\ ~hw.reply /\ (r.missed \/ late))
    BY <2>5
  <2>11. q.local_first <=> IF request THEN LocalFirst(r, hw.commit) ELSE r.local_first /\ ~hw.start
    BY <2>3
  <2> HIDE DEF done, request
  <2>12. CircuitNext(q, hw, r, x, done, request)
    BY <2>1, <2>2, <2>4, <2>6, <2>7, <2>8, <2>9, <2>10, <2>11 DEF CircuitNext
  <2> QED  BY <2>12 DEF q, done, request
<1> QED  BY <1>1, <1>2, <1>11, <1>12

\* The circuit and the edge begin, send and reply together.
SameSteps(hw, e) ==
  /\ hw.ready \in BOOLEAN /\ hw.start \in BOOLEAN /\ hw.commit \in BOOLEAN /\ hw.reply \in BOOLEAN
  /\ hw.ready = e.ready /\ hw.start = e.start /\ hw.commit = e.commit /\ hw.reply = e.reply

LEMMA StepsAgree ==
  ASSUME NEW b, BasicOK(b), NEW x, InputOK(x), NEW r, StandsFor(r, b)
  PROVE  SameSteps(HwBasic(r, x), Edge(b, x))
<1> DEFINE hw == HwBasic(r, x)
           e == Edge(b, x)
           offers == Offers(Advanced(b), x.limit)
<1>1. CircuitShows(hw, r, x) /\ EdgeShows(b, x, e)
  BY CircuitIs, EdgeIs
<1>2. /\ offers = LocalSet(r) \cup RemoteSet(r, x.limit)
      /\ \A k \in Kinds : RequestHead(b, k) <=> k \in LocalSet(r)
      /\ \A k \in Kinds : ReplyHead(b, k) <=> k \in ReplySet(r)
  BY OffersAre
<1>3. \A k \in offers : b.queues[k] # << >>
  BY AdvancedOK DEF Offers
<1>4. r.local_busy <=> b.local.kind # NoOp
  BY DEF StandsFor
<1>5. e.ready = (b.local.kind = NoOp /\ x.kind \in Kinds /\ (x.kind = TxReady => Folding /\ x.symbols))
  BY DEF Edge, LocalReady
<1>6. hw.ready = (~r.local_busy /\ x.kind \in Kinds /\ (x.kind = TxReady => Folding /\ x.symbols))
  BY DEF HwBasic
<1>7. hw.start = (x.valid /\ hw.ready)
  BY DEF HwBasic
<1>8. hw.commit \in BOOLEAN /\ hw.reply \in BOOLEAN
  BY DEF HwBasic
<1> HIDE DEF hw, e, offers
<1>9. hw.ready \in BOOLEAN /\ (hw.ready <=> LocalReady(b, x))
  BY <1>4, <1>6 DEF LocalReady
<1>10. hw.start \in BOOLEAN /\ hw.start = e.start
  BY <1>1, <1>7, <1>9 DEF EdgeShows
<1>11. hw.commit <=> \E k \in Kinds : x.take = {k} /\ k \in LocalSet(r)
  <2>1. hw.commit <=> Cardinality(x.take) = 1 /\ x.take \cap LocalSet(r) # {}
    BY <1>1 DEF CircuitShows
  <2> QED  BY <2>1, TakenAre
<1>12. hw.reply <=> \E k \in Kinds : x.take = {k} /\ k \in RemoteSet(r, x.limit)
  <2>1. hw.reply <=> Cardinality(x.take) = 1 /\ x.take \cap ReplySet(r) # {} /\ RemoteReady(r, x.limit)
    BY <1>1 DEF CircuitShows
  <2>2. \A k \in ReplySet(r) : r.remote_kind = k
    BY DEF ReplySet
  <2>3. \A k : k \in RemoteSet(r, x.limit) <=> k \in ReplySet(r) /\ RemoteReady(r, x.limit)
    BY <2>2 DEF RemoteSet, RemoteReady
  <2> QED  BY <2>1, <2>3, TakenAre
<1>13. e.commit <=> \E k \in Kinds : x.take = {k} /\ k \in LocalSet(r)
  <2>1. e.commit <=> \E k \in Kinds : x.take = {k} /\ k \in offers /\ Head(b.queues[k]) = "request"
    BY <1>1 DEF EdgeShows, offers
  <2> QED  BY <1>2, <1>3, <2>1 DEF RequestHead
<1>14. e.reply <=> \E k \in Kinds : x.take = {k} /\ k \in RemoteSet(r, x.limit)
  <2>1. e.reply <=> \E k \in Kinds : x.take = {k} /\ k \in offers /\ Head(b.queues[k]) = "reply"
    BY <1>1 DEF EdgeShows, offers
  <2>2. RemoteSet(r, x.limit) \subseteq ReplySet(r)
    BY DEF RemoteSet
  <2>3. \A k \in Kinds : k \in offers /\ Head(b.queues[k]) = "reply" <=> k \in RemoteSet(r, x.limit)
    BY <1>2, <1>3, <2>2, QueueHeads DEF RequestHead, ReplyHead
  <2> QED  BY <2>1, <2>3
<1>15. hw.commit = e.commit /\ hw.reply = e.reply
  <2>1. e.commit \in BOOLEAN /\ e.reply \in BOOLEAN
    BY <1>1 DEF EdgeShows
  <2> QED  BY <1>8, <1>11, <1>12, <1>13, <1>14, <2>1
<1>16. hw.ready = e.ready
  BY <1>4, <1>5, <1>6
<1>17. SameSteps(hw, e)
  BY <1>8, <1>9, <1>10, <1>15, <1>16 DEF SameSteps
<1> QED  BY <1>17 DEF hw, e

\* They take a word for the same.
SameVerdict(hw, e, r, x) ==
  /\ HwDone(r, x) <=> e.verdict = "ack"
  /\ HwRequest(hw, r, x) <=> e.verdict = "request"
  /\ e.verdict \in {"none", "ack", "unmatched_ack", "request", "remote_overlap", "noop",
                    "unhandled", "unsupported"}
  /\ hw.verdicts = {e.verdict} \ {"none"}
  /\ hw.learns = e.learns

LEMMA VerdictsAgree ==
  ASSUME NEW b, BasicOK(b), NEW x, InputOK(x), NEW r, StandsFor(r, b)
  PROVE  SameVerdict(HwBasic(r, x), Edge(b, x), r, x)
<1> DEFINE hw == HwBasic(r, x)
           e == Edge(b, x)
           done == HwDone(r, x)
           request == HwRequest(hw, r, x)
           supported == x.arrives /\ Supported(x.word)
           unmatched == supported /\ x.word.ack /\ ~done
           overlap == supported /\ ~x.word.ack /\ r.remote_busy /\ ~hw.reply
           basic == x.arrives /\ x.word.basic
<1>1. CircuitShows(hw, r, x) /\ EdgeShows(b, x, e) /\ SameSteps(hw, e)
  BY CircuitIs, EdgeIs, StepsAgree
<1>2. hw.reply <=> e.reply
  BY <1>1 DEF SameSteps
<1>3. /\ r.local_busy <=> b.local.kind # NoOp
      /\ r.local_sent <=> b.local.sent
      /\ b.local.kind # NoOp => r.local_kind = b.local.kind
      /\ r.remote_busy <=> b.remote.kind # NoOp
  BY DEF StandsFor
<1>4. e.verdict =
       IF ~x.arrives THEN "none"
       ELSE IF ~x.word.basic \/ x.word.kind \notin Kinds \cup {NoOp} THEN "unhandled"
       ELSE IF x.word.kind = NoOp THEN "noop"
       ELSE IF ~Supported(x.word) THEN "unsupported"
       ELSE IF x.word.ack
            THEN IF b.local.sent /\ b.local.kind = x.word.kind THEN "ack" ELSE "unmatched_ack"
            ELSE IF b.remote.kind # NoOp /\ ~e.reply THEN "remote_overlap" ELSE "request"
  BY <1>1 DEF EdgeShows
<1>5. e.learns = Learns(e.verdict, x.word)
  BY DEF Edge
<1>6. hw.verdicts = {v \in {"ack", "unmatched_ack", "request", "remote_overlap", "noop",
                               "unhandled", "unsupported"} :
                          CASE v = "ack" -> done
                            [] v = "unmatched_ack" -> unmatched
                            [] v = "request" -> request
                            [] v = "remote_overlap" -> overlap
                            [] v = "noop" -> basic /\ x.word.kind = NoOp
                            [] v = "unhandled" ->
                                 x.arrives /\ (~basic \/ x.word.kind \notin Kinds \cup {NoOp})
                            [] v = "unsupported" -> basic /\ x.word.kind = TxReady /\ ~Folding}
  BY <1>1 DEF CircuitShows, HwDone, HwRequest
<1>7. hw.learns = IF \/ (request /\ x.word.kind = Rate)
                     \/ ((request \/ done) /\ x.word.kind \in {DeviceId, Port})
                  THEN [kind |-> x.word.kind, upper |-> x.word.upper]
                  ELSE [kind |-> NoOp, upper |-> 0]
  BY <1>1 DEF CircuitShows, HwDone, HwRequest
<1>8. done <=> x.arrives /\ Supported(x.word) /\ x.word.ack /\ b.local.sent /\ b.local.kind = x.word.kind
  BY <1>3, KindsAre, BasicTypes DEF HwDone, Supported
<1>9. request <=> x.arrives /\ Supported(x.word) /\ ~x.word.ack /\ (b.remote.kind = NoOp \/ e.reply)
  BY <1>2, <1>3 DEF HwRequest
<1>10. overlap <=> /\ x.arrives /\ Supported(x.word) /\ ~x.word.ack
                   /\ b.remote.kind # NoOp /\ ~e.reply
  BY <1>2, <1>3
<1>11. Supported(x.word) => x.word.basic /\ x.word.kind \in Kinds
  BY DEF Supported
<1>12. basic /\ x.word.kind = TxReady /\ ~Folding <=>
         /\ x.arrives /\ x.word.basic /\ x.word.kind \in Kinds /\ ~Supported(x.word)
  BY KindsAre DEF Supported
<1> HIDE DEF e, hw, done, request
<1>13. /\ done <=> e.verdict = "ack"
       /\ unmatched <=> e.verdict = "unmatched_ack"
       /\ request <=> e.verdict = "request"
       /\ overlap <=> e.verdict = "remote_overlap"
       /\ basic /\ x.word.kind = NoOp <=> e.verdict = "noop"
       /\ x.arrives /\ (~basic \/ x.word.kind \notin Kinds \cup {NoOp}) <=> e.verdict = "unhandled"
       /\ basic /\ x.word.kind = TxReady /\ ~Folding <=> e.verdict = "unsupported"
       /\ e.verdict \in {"none", "ack", "unmatched_ack", "request", "remote_overlap", "noop",
                    "unhandled", "unsupported"}
  <2>1. NoOp \notin Kinds
    BY KindsAre
  <2> QED  BY <1>4, <1>8, <1>9, <1>10, <1>11, <1>12, <2>1
<1>14. hw.verdicts = {e.verdict} \ {"none"}
  <2> HIDE DEF unmatched, overlap, basic
  <2>1. ASSUME NEW v \in {"ack", "unmatched_ack", "request", "remote_overlap", "noop",
                               "unhandled", "unsupported"}
        PROVE  v \in hw.verdicts <=> v = e.verdict
    BY <1>6, <1>13
  <2>2. hw.verdicts \subseteq {"ack", "unmatched_ack", "request", "remote_overlap", "noop",
                               "unhandled", "unsupported"}
    BY <1>6
  <2> QED  BY <1>13, <2>1, <2>2
<1>15. hw.learns = e.learns
  <2>1. /\ e.verdict = "request" \/ e.verdict = "ack" => x.word.kind \in Kinds
    BY <1>4, <1>11
  <2>2. /\ Kinds = {TxReady, Rate, DeviceId, Port} /\ TxReady \notin {Rate, DeviceId, Port}
    BY DEF Kinds, TxReady, Rate, DeviceId, Port
  <2>3. \/ (request /\ x.word.kind = Rate)
        \/ ((request \/ done) /\ x.word.kind \in {DeviceId, Port})
        <=> \/ e.verdict = "request" /\ x.word.kind # TxReady
            \/ e.verdict = "ack" /\ x.word.kind \in {DeviceId, Port}
    BY <1>13, <2>1, <2>2
  <2> QED  BY <1>5, <1>7, <2>3 DEF Learns
<1>16. SameVerdict(hw, e, r, x)
  BY <1>13, <1>14, <1>15 DEF SameVerdict, done, request
<1> QED  BY <1>16 DEF hw, e

\* They offer the same words.
LEMMA WordsAgree ==
  ASSUME NEW b, BasicOK(b), NEW x, InputOK(x), NEW r, StandsFor(r, b)
  PROVE  HwBasic(r, x).words = [k \in DOMAIN Edge(b, x).words |-> {Edge(b, x).words[k]}]
<1> DEFINE now == Advanced(b)
           offers == Offers(now, x.limit)
           w == Edge(b, x).words
           local == LocalSet(r)
           remote == RemoteSet(r, x.limit)
           joined(k) == {Word(k, FALSE, r.local_upper) : q \in local \cap {k}}
                        \cup {Word(k, TRUE, IF k \in {DeviceId, Port} THEN r.remote_upper ELSE 0) :
                                q \in remote \cap {k}}
<1>1. w = [k \in offers |-> HeadWord(now, k)]
  BY DEF Edge
<1>2. HwBasic(r, x).words = [k \in local \cup remote |-> joined(k)]
  <2>1. HwBasic(r, x).words = JoinedWords(r, x.limit)
    BY CircuitIs
  <2> QED  BY <2>1 DEF JoinedWords
<1>3. /\ offers = local \cup remote
      /\ \A k \in Kinds : RequestHead(b, k) <=> k \in local
      /\ \A k \in Kinds : ReplyHead(b, k) <=> k \in ReplySet(r)
  BY OffersAre
<1>4. local \subseteq Kinds /\ remote \subseteq ReplySet(r) /\ ReplySet(r) \subseteq Kinds
  BY DEF LocalSet, RemoteSet, ReplySet
<1>5. now.local = b.local /\ now.queues = b.queues /\ now.remote.upper = b.remote.upper
  BY AdvancedOK
<1>6. r.local_upper = b.local.upper /\ r.remote_upper = b.remote.upper
  BY DEF StandsFor
<1> HIDE DEF local, remote, now
<1>7. ASSUME NEW k \in offers
      PROVE  joined(k) = {HeadWord(now, k)}
  <2>1. CASE k \in local
    <3>1. Head(b.queues[k]) = "request"
      BY <1>3, <1>4, <2>1 DEF RequestHead
    <3>2. k \notin remote
      BY <1>3, <1>4, <3>1, <2>1, QueueHeads DEF ReplyHead
    <3>3. HeadWord(now, k) = Word(k, FALSE, r.local_upper)
      BY <1>5, <1>6, <3>1, QueueHeads DEF HeadWord
    <3> QED  BY <2>1, <3>2, <3>3
  <2>2. CASE k \notin local
    <3>1. k \in remote /\ k \in Kinds /\ ReplyHead(b, k)
      BY <1>3, <1>4, <2>2
    <3>2. b.remote.kind = k
      BY <3>1, HeadsAre
    <3>3. k \notin {DeviceId, Port} => b.remote.upper = 0
      BY <3>2, BasicTypes
    <3>4. HeadWord(now, k) = Word(k, TRUE, b.remote.upper)
      BY <1>5, <3>1 DEF HeadWord, ReplyHead
    <3> QED  BY <1>6, <2>2, <3>1, <3>3, <3>4
  <2> QED  BY <2>1, <2>2
<1> HIDE DEF joined
<1>8. DOMAIN w = offers /\ \A k \in offers : w[k] = HeadWord(now, k)
  BY <1>1
<1> HIDE DEF w, offers
<1> QED  BY <1>2, <1>3, <1>7, <1>8 DEF w

\* The same state, the same delay and the same mistakes.
SameFlags(hw, e) ==
  /\ hw.pending = e.pending /\ hw.waiting = e.waiting /\ hw.owes = e.owes
  /\ hw.missed = e.missed /\ hw.error = e.error

LEMMA MissedAgrees ==
  ASSUME NEW b, BasicOK(b), NEW r, StandsFor(r, b)
  PROVE  Advanced(b).remote.missed /\ ~b.remote.missed
         <=> r.remote_busy /\ ~r.missed /\ r.age = AckEdges
<1>1. BasicOK(Advanced(b))
  BY AdvancedOK
<1>2. /\ b.remote.age \in Nat /\ b.remote.age <= AckEdges + 1 /\ AckEdges \in Nat
      /\ b.remote.missed <=> b.remote.age > AckEdges
      /\ Advanced(b).remote.missed <=> Advanced(b).remote.age > AckEdges
  BY <1>1, BasicTypes, BasicMessageAssumption
<1>3. /\ r.remote_busy = (b.remote.kind # NoOp) /\ r.missed = b.remote.missed
      /\ r.age = (IF b.remote.age > AckEdges THEN AckEdges ELSE b.remote.age)
  BY DEF StandsFor
<1>4. /\ b.remote.kind = NoOp => Advanced(b).remote.age = 0
      /\ b.remote.kind # NoOp =>
            Advanced(b).remote.age = IF b.remote.age > AckEdges THEN b.remote.age
                                     ELSE b.remote.age + 1
  BY AdvancedOK
<1> DEFINE now == Advanced(b)
<1> HIDE DEF now
<1>5. CASE b.remote.kind = NoOp
  <2>1. ~r.remote_busy
    BY <1>3, <1>5
  <2>2. Advanced(b).remote.age = 0 /\ ~(0 > AckEdges)
    BY <1>2, <1>4, <1>5
  <2>3. ~Advanced(b).remote.missed
    BY <1>2, <2>2
  <2> QED  BY <2>1, <2>3
<1>6. CASE b.remote.kind # NoOp /\ b.remote.age > AckEdges
  BY <1>2, <1>3, <1>6
<1>7. CASE b.remote.kind # NoOp /\ ~(b.remote.age > AckEdges)
  <2>1. ~b.remote.missed /\ ~r.missed /\ r.remote_busy /\ r.age = b.remote.age
    BY <1>2, <1>3, <1>7
  <2>2. now.remote.age = b.remote.age + 1
    BY <1>4, <1>7 DEF now
  <2>3. now.remote.age > AckEdges <=> r.age = AckEdges
    BY <1>2, <1>7, <2>1, <2>2
  <2> QED  BY <1>2, <2>1, <2>3 DEF now
<1> QED  BY <1>5, <1>6, <1>7

LEMMA FlagsAgree ==
  ASSUME NEW b, BasicOK(b), NEW x, InputOK(x), NEW r, StandsFor(r, b)
  PROVE  SameFlags(HwBasic(r, x), Edge(b, x))
<1> DEFINE hw == HwBasic(r, x)
           e == Edge(b, x)
           now == Advanced(b)
           offers == Offers(now, x.limit)
           local == LocalSet(r)
           reply_head == ReplySet(r)
           takes == Cardinality(x.take) = 1 /\ x.take \subseteq offers
           onehot == Cardinality(x.take) = 1
           supported == x.arrives /\ Supported(x.word)
           unmatched == supported /\ x.word.ack /\ ~HwDone(r, x)
           takes_reply == onehot /\ x.take \cap reply_head # {}
           stray == x.valid /\ x.kind \notin Kinds
<1>1. CircuitShows(hw, r, x) /\ EdgeShows(b, x, e) /\ SameSteps(hw, e) /\ SameVerdict(hw, e, r, x)
  BY CircuitIs, EdgeIs, StepsAgree, VerdictsAgree
<1>2. /\ r.local_busy = (b.local.kind # NoOp) /\ r.local_sent = b.local.sent
      /\ r.remote_busy = (b.remote.kind # NoOp)
  BY DEF StandsFor
<1>3. hw.pending = e.pending /\ hw.owes = e.owes
  BY <1>2, CircuitIs DEF Edge
<1>4. hw.waiting = e.waiting
  <2>1. hw.waiting = (r.local_busy /\ r.local_sent) /\ e.waiting = b.local.sent
    BY CircuitIs DEF Edge
  <2>2. b.local.sent \in BOOLEAN /\ (b.local.kind = NoOp => b.local.sent = FALSE)
    BY BasicTypes
  <2> QED  BY <1>2, <2>1, <2>2
<1>5. hw.missed = e.missed
  <2>1. e.missed = (now.remote.missed /\ ~b.remote.missed)
    BY DEF Edge
  <2>2. hw.missed = (r.remote_busy /\ ~r.missed /\ r.age = AckEdges)
    BY DEF HwBasic
  <2> QED  BY <2>1, <2>2, MissedAgrees
<1>6. hw.error = e.error
  <2>1. e.error \in BOOLEAN /\ hw.error \in BOOLEAN
    BY DEF Edge, HwBasic
  <2>2. e.error <=> \/ x.take # {} /\ ~takes
                    \/ stray
                    \/ e.verdict \in {"unmatched_ack", "remote_overlap"}
    BY DEF Edge
  <2>3. hw.error <=>
           \/ x.take # {} /\ (~onehot \/ ~(x.take \subseteq local \cup reply_head))
           \/ stray \/ unmatched
           \/ supported /\ ~x.word.ack /\ r.remote_busy /\ ~takes_reply
           \/ /\ ~RemoteReady(r, x.limit)
              /\ \/ x.take # {} /\ (~onehot \/ ~(x.take \subseteq local))
                 \/ supported /\ ~x.word.ack /\ r.remote_busy
    BY <1>1 DEF CircuitShows, HwDone
  <2>4. hw.reply <=> takes_reply /\ RemoteReady(r, x.limit)
    BY <1>1 DEF CircuitShows
  <2>5. hw.verdicts = {e.verdict} \ {"none"}
    BY <1>1 DEF SameVerdict
  <2>6. /\ "unmatched_ack" \in hw.verdicts <=> unmatched
        /\ "remote_overlap" \in hw.verdicts <=> supported /\ ~x.word.ack /\ r.remote_busy /\ ~hw.reply
    BY <1>1 DEF CircuitShows, HwDone
  <2>7. e.verdict \in {"unmatched_ack", "remote_overlap"} <=>
          unmatched \/ (supported /\ ~x.word.ack /\ r.remote_busy /\ ~hw.reply)
    BY <2>5, <2>6
  <2>8. offers = local \cup RemoteSet(r, x.limit)
    BY OffersAre
  <2>9. /\ RemoteReady(r, x.limit) => offers = local \cup reply_head
        /\ ~RemoteReady(r, x.limit) => offers = local
    <3>1. \A k \in ReplySet(r) : r.remote_kind = k
      BY DEF ReplySet
    <3>2. \A k : k \in RemoteSet(r, x.limit) <=> k \in ReplySet(r) /\ RemoteReady(r, x.limit)
      BY <3>1 DEF RemoteSet, RemoteReady
    <3> QED  BY <2>8, <3>2
  <2> HIDE DEF hw, e, now, offers, local, reply_head, supported, unmatched, stray
  <2>10. CASE RemoteReady(r, x.limit)
    BY <2>1, <2>2, <2>3, <2>4, <2>7, <2>9, <2>10
  <2>11. CASE ~RemoteReady(r, x.limit)
    BY <2>1, <2>2, <2>3, <2>4, <2>7, <2>9, <2>11
  <2> QED  BY <2>10, <2>11
<1> QED  BY <1>3, <1>4, <1>5, <1>6 DEF SameFlags

Registers ==
  [local_busy : BOOLEAN, local_sent : BOOLEAN, local_kind : Nat, local_upper : Nat,
   remote_busy : BOOLEAN, remote_kind : Nat, remote_upper : Nat, remote_rate : Nat,
   local_first : BOOLEAN, age : Nat, missed : BOOLEAN]

\* What the registers mean is again a set of registers.
LEMMA MeaningIs ==
  ASSUME NEW r \in Registers
  PROVE  /\ Meaning(r) \in Registers
         /\ Meaning(r).local_busy = r.local_busy /\ Meaning(r).local_sent = r.local_sent
         /\ Meaning(r).local_kind = (IF r.local_busy THEN r.local_kind ELSE NoOp)
         /\ Meaning(r).local_upper = (IF r.local_busy THEN r.local_upper ELSE 0)
         /\ Meaning(r).remote_busy = r.remote_busy
         /\ Meaning(r).remote_kind = (IF r.remote_busy THEN r.remote_kind ELSE NoOp)
         /\ Meaning(r).remote_upper = (IF r.remote_busy THEN r.remote_upper ELSE 0)
         /\ Meaning(r).remote_rate =
              (IF r.remote_busy /\ r.remote_kind = Rate THEN r.remote_rate ELSE 0)
         /\ Meaning(r).local_first =
              (r.local_first /\ r.local_busy /\ r.remote_busy /\ ~r.local_sent
                /\ r.local_kind = r.remote_kind)
         /\ Meaning(r).age = r.age /\ Meaning(r).missed = r.missed
<1> DEFINE lk == IF r.local_busy THEN r.local_kind ELSE NoOp
           lu == IF r.local_busy THEN r.local_upper ELSE 0
           rk == IF r.remote_busy THEN r.remote_kind ELSE NoOp
           ru == IF r.remote_busy THEN r.remote_upper ELSE 0
           rr == IF r.remote_busy /\ r.remote_kind = Rate THEN r.remote_rate ELSE 0
           lf == r.local_first /\ r.local_busy /\ r.remote_busy /\ ~r.local_sent
                 /\ r.local_kind = r.remote_kind
           n == Meaning(r)
<1>1. lk \in Nat /\ lu \in Nat /\ rk \in Nat /\ ru \in Nat /\ rr \in Nat /\ lf \in BOOLEAN
  BY DEF Registers, NoOp
<1>2. n = [r EXCEPT !.local_kind = lk, !.local_upper = lu, !.remote_kind = rk,
                    !.remote_upper = ru, !.remote_rate = rr, !.local_first = lf]
  BY DEF Meaning, Registers
<1> HIDE DEF lk, lu, rk, ru, rr, lf, n
<1>3. n \in Registers
  BY <1>1, <1>2 DEF Registers
<1>4. /\ n.local_busy = r.local_busy /\ n.local_sent = r.local_sent
      /\ n.local_kind = lk /\ n.local_upper = lu
      /\ n.remote_busy = r.remote_busy /\ n.remote_kind = rk /\ n.remote_upper = ru
      /\ n.remote_rate = rr /\ n.local_first = lf /\ n.age = r.age /\ n.missed = r.missed
  BY <1>2 DEF Registers
<1> QED  BY <1>3, <1>4 DEF n, lk, lu, rk, ru, rr, lf

LEMMA SameRegisters ==
  ASSUME NEW p \in Registers, NEW q \in Registers,
         p.local_busy = q.local_busy, p.local_sent = q.local_sent, p.local_kind = q.local_kind,
         p.local_upper = q.local_upper, p.remote_busy = q.remote_busy,
         p.remote_kind = q.remote_kind, p.remote_upper = q.remote_upper,
         p.remote_rate = q.remote_rate, p.local_first = q.local_first, p.age = q.age,
         p.missed = q.missed
  PROVE  p = q
BY DEF Registers

LEMMA RegistersTyped ==
  ASSUME NEW b, BasicOK(b), NEW stale \in Nat
  PROVE  RegistersOf(b, stale) \in Registers
<1>1. b.local.kind \in Nat /\ b.remote.kind \in Nat /\ AckEdges \in Nat
  <2>1. b.local.kind \in Kinds \cup {NoOp} /\ b.remote.kind \in Kinds \cup {NoOp}
    BY BasicTypes
  <2>2. Kinds \cup {NoOp} \subseteq Nat
    BY KindsAre DEF NoOp
  <2> QED  BY <2>1, <2>2, BasicMessageAssumption
<1> QED  BY <1>1, BasicTypes DEF RegistersOf, Registers

LEMMA CircuitTyped ==
  ASSUME NEW x, InputOK(x), NEW r \in Registers
  PROVE  HwBasic(r, x).registers \in Registers
<1> DEFINE hw == HwBasic(r, x)
           q == hw.registers
<1>1. q = [local_busy |-> q.local_busy, local_sent |-> q.local_sent, local_kind |-> q.local_kind,
           local_upper |-> q.local_upper, remote_busy |-> q.remote_busy,
           remote_kind |-> q.remote_kind, remote_upper |-> q.remote_upper,
           remote_rate |-> q.remote_rate, local_first |-> q.local_first, age |-> q.age,
           missed |-> q.missed]
  BY DEF HwBasic
<1>2. CircuitNext(q, hw, r, x, HwDone(r, x), HwRequest(hw, r, x))
  BY CircuitIs
<1> HIDE DEF q, hw
<1>3. /\ x.kind \in Nat /\ RequestUpper(x) \in Nat /\ x.word.upper \in Nat
      /\ IdentityUpper(x.word.kind, x.own) \in Nat
  BY KindsAre DEF InputOK, RequestUpper, IdentityUpper
<1>4. HwRequest(hw, r, x) => x.word.kind \in Nat
  BY KindsAre DEF HwRequest, Supported
<1>5. /\ r.local_kind \in Nat /\ r.local_upper \in Nat /\ r.remote_kind \in Nat
      /\ r.remote_upper \in Nat /\ r.remote_rate \in Nat /\ r.age \in Nat
  BY DEF Registers
<1>6. /\ q.local_kind \in Nat /\ q.local_upper \in Nat /\ q.remote_kind \in Nat
      /\ q.remote_upper \in Nat /\ q.remote_rate \in Nat
  BY <1>2, <1>3, <1>4, <1>5 DEF CircuitNext
<1>7. q.age \in Nat
  BY <1>2, <1>5 DEF CircuitNext
<1>8. /\ q.local_busy \in BOOLEAN /\ q.local_sent \in BOOLEAN /\ q.remote_busy \in BOOLEAN
      /\ q.local_first \in BOOLEAN /\ q.missed \in BOOLEAN
  BY <1>2 DEF CircuitNext
<1>9. q \in Registers
  BY <1>1, <1>6, <1>7, <1>8 DEF Registers
<1> QED  BY <1>9 DEF q, hw

LEMMA RegistersAgree ==
  ASSUME NEW b, BasicOK(b), NEW x, InputOK(x), NEW r \in Registers, StandsFor(r, b)
  PROVE  Meaning(HwBasic(r, x).registers) = Meaning(RegistersOf(Edge(b, x).next, NoOp))
<1> DEFINE hw == HwBasic(r, x)
           e == Edge(b, x)
           q == hw.registers
           n == e.next
           m == RegistersOf(n, NoOp)
           done == HwDone(r, x)
           request == HwRequest(hw, r, x)
<1>1. /\ EdgeResult(b, x, e) /\ EdgeShows(b, x, e) /\ SameSteps(hw, e) /\ SameVerdict(hw, e, r, x)
      /\ CircuitNext(q, hw, r, x, done, request) /\ StandsFor(m, n)
  BY EdgeIs, StepsAgree, VerdictsAgree, CircuitIs, RegistersStand
<1>2. q \in Registers
  BY CircuitTyped
<1>3. BasicOK(n)
  BY <1>1 DEF EdgeResult
<1>4. m \in Registers
  <2>1. NoOp \in Nat
    BY DEF NoOp
  <2> HIDE DEF n
  <2> QED  BY <1>3, <2>1, RegistersTyped
<1> HIDE DEF m, n, q, e, hw, done, request
\* The steps of the edge, said once for both.
<1>5. /\ hw.start <=> e.start
      /\ hw.commit <=> e.commit
      /\ hw.reply <=> e.reply
      /\ done <=> e.verdict = "ack"
      /\ request <=> e.verdict = "request"
      /\ ~(done /\ request)
  BY <1>1 DEF SameSteps, SameVerdict, done, request
<1>6. /\ hw.start => x.kind \in Kinds /\ b.local.kind = NoOp
      /\ request => x.word.kind \in Kinds
      /\ hw.commit => b.local.kind \in Kinds /\ ~b.local.sent
      /\ hw.reply => b.remote.kind \in Kinds
      /\ hw.start \in BOOLEAN /\ hw.commit \in BOOLEAN /\ hw.reply \in BOOLEAN
  BY <1>1, <1>5 DEF EdgeShows, LocalReady, HwRequest, Supported, request, SameSteps
<1>7. /\ n.local = IF hw.start THEN [kind |-> x.kind, upper |-> RequestUpper(x), sent |-> FALSE]
                   ELSE IF done THEN NoLocal
                   ELSE IF hw.commit THEN [kind |-> b.local.kind, upper |-> b.local.upper,
                                           sent |-> TRUE]
                   ELSE b.local
      /\ n.remote = IF request THEN NewRemote(x.word, x.own)
                    ELSE IF hw.reply THEN NoRemote ELSE Advanced(b).remote
      /\ RequestBefore(n) <=>
           /\ ~hw.start
           /\ IF request THEN b.local.kind = x.word.kind /\ ~b.local.sent /\ ~hw.commit
              ELSE ~hw.commit /\ ~hw.reply /\ RequestBefore(b)
  BY <1>1, <1>5 DEF EdgeResult, n
<1>8. /\ n.local.kind = IF hw.start THEN x.kind ELSE IF done THEN NoOp ELSE b.local.kind
      /\ n.local.upper = IF hw.start THEN RequestUpper(x) ELSE IF done THEN 0 ELSE b.local.upper
      /\ n.local.sent <=> ~hw.start /\ ~done /\ (hw.commit \/ b.local.sent)
  BY <1>6, <1>7 DEF NoLocal
<1>9. /\ Advanced(b).remote.kind = b.remote.kind /\ Advanced(b).remote.upper = b.remote.upper
      /\ Advanced(b).remote.rate = b.remote.rate
  BY AdvancedOK
<1>10. /\ n.remote.kind = IF request THEN x.word.kind ELSE IF hw.reply THEN NoOp ELSE b.remote.kind
       /\ n.remote.upper = IF request THEN IdentityUpper(x.word.kind, x.own)
                           ELSE IF hw.reply THEN 0 ELSE b.remote.upper
       /\ n.remote.rate = IF request THEN IF x.word.kind = Rate THEN x.word.upper ELSE 0
                          ELSE IF hw.reply THEN 0 ELSE b.remote.rate
       /\ n.remote.age = IF request \/ hw.reply THEN 0 ELSE Advanced(b).remote.age
       /\ n.remote.missed <=> ~request /\ ~hw.reply /\ Advanced(b).remote.missed
  <2>1. n.remote.missed \in BOOLEAN
    BY <1>3, BasicTypes
  <2> QED  BY <1>7, <1>9, <2>1 DEF NewRemote, NoRemote
<1>11. /\ r.local_busy = (b.local.kind # NoOp) /\ r.local_sent = b.local.sent
       /\ b.local.kind # NoOp => r.local_kind = b.local.kind
       /\ r.local_upper = b.local.upper
       /\ r.remote_busy = (b.remote.kind # NoOp)
       /\ b.remote.kind # NoOp => r.remote_kind = b.remote.kind
       /\ r.remote_upper = b.remote.upper /\ r.remote_rate = b.remote.rate
       /\ r.local_first = RequestBefore(b)
       /\ r.age = (IF b.remote.age > AckEdges THEN AckEdges ELSE b.remote.age)
       /\ r.missed = b.remote.missed
  BY DEF StandsFor
<1>12. /\ m.local_busy = (n.local.kind # NoOp) /\ m.local_sent = n.local.sent
       /\ n.local.kind # NoOp => m.local_kind = n.local.kind
       /\ m.local_upper = n.local.upper
       /\ m.remote_busy = (n.remote.kind # NoOp)
       /\ n.remote.kind # NoOp => m.remote_kind = n.remote.kind
       /\ m.remote_upper = n.remote.upper /\ m.remote_rate = n.remote.rate
       /\ m.local_first = RequestBefore(n)
       /\ m.age = (IF n.remote.age > AckEdges THEN AckEdges ELSE n.remote.age)
       /\ m.missed = n.remote.missed
  BY <1>1 DEF StandsFor
<1>13. /\ q.local_busy <=> hw.start \/ (r.local_busy /\ ~done)
       /\ q.local_sent <=> ~hw.start /\ ~done /\ (r.local_sent \/ hw.commit)
       /\ q.local_kind = IF hw.start THEN x.kind ELSE r.local_kind
       /\ q.local_upper = IF hw.start THEN RequestUpper(x) ELSE r.local_upper
       /\ q.remote_busy <=> request \/ (r.remote_busy /\ ~hw.reply)
       /\ q.remote_kind = IF request THEN x.word.kind ELSE r.remote_kind
       /\ q.remote_upper = IF request THEN IdentityUpper(x.word.kind, x.own) ELSE r.remote_upper
       /\ q.remote_rate = IF request THEN x.word.upper ELSE r.remote_rate
       /\ q.local_first <=> IF request THEN LocalFirst(r, hw.commit) ELSE r.local_first /\ ~hw.start
       /\ q.age = IF request \/ hw.reply \/ ~r.remote_busy THEN 0
                  ELSE IF r.age # AckEdges THEN r.age + 1 ELSE r.age
       /\ q.missed <=> /\ ~request /\ ~hw.reply
                       /\ r.missed \/ (r.remote_busy /\ ~r.missed /\ r.age = AckEdges)
  BY <1>1 DEF CircuitNext
<1>14. /\ q.local_busy \in BOOLEAN /\ m.local_busy \in BOOLEAN /\ q.local_sent \in BOOLEAN
       /\ m.local_sent \in BOOLEAN /\ q.remote_busy \in BOOLEAN /\ m.remote_busy \in BOOLEAN
       /\ q.local_first \in BOOLEAN /\ m.local_first \in BOOLEAN
       /\ q.missed \in BOOLEAN /\ m.missed \in BOOLEAN
  BY <1>2, <1>4 DEF Registers
<1>15. NoOp \notin Kinds
  BY KindsAre
<1>16. q.local_busy = m.local_busy /\ q.local_sent = m.local_sent
  BY <1>6, <1>8, <1>11, <1>12, <1>13, <1>14, <1>15
<1>17. q.remote_busy = m.remote_busy
  BY <1>6, <1>10, <1>11, <1>12, <1>13, <1>14, <1>15
<1>18. q.local_busy => q.local_kind = m.local_kind /\ q.local_upper = m.local_upper
  BY <1>6, <1>8, <1>11, <1>12, <1>13, <1>15
<1>19. q.remote_busy => /\ q.remote_kind = m.remote_kind /\ q.remote_upper = m.remote_upper
                        /\ q.remote_kind = Rate => q.remote_rate = m.remote_rate
  BY <1>6, <1>10, <1>11, <1>12, <1>13, <1>15
<1>20. q.local_busy /\ q.remote_busy /\ ~q.local_sent /\ q.local_kind = q.remote_kind
       => q.local_first = m.local_first
  <2> SUFFICES ASSUME q.local_busy, q.remote_busy, ~q.local_sent, q.local_kind = q.remote_kind
               PROVE  q.local_first <=> m.local_first
    BY <1>14
  <2>1. CASE hw.start
    <3>1. ~r.local_busy
      BY <1>6, <1>11, <2>1
    <3>2. ~m.local_first
      BY <1>7, <1>12, <2>1
    <3>3. ~q.local_first
      BY <1>13, <2>1, <3>1 DEF LocalFirst
    <3> QED  BY <3>2, <3>3
  <2>2. CASE ~hw.start
    <3>1. r.local_busy /\ ~done /\ ~r.local_sent /\ ~hw.commit /\ b.local.kind # NoOp
          /\ q.local_kind = b.local.kind
      BY <1>11, <1>13, <2>2
    <3>2. CASE request
      BY <1>7, <1>11, <1>12, <1>13, <2>2, <3>1, <3>2 DEF LocalFirst
    <3>3. CASE ~request
      <4>1. ~hw.reply
        BY <1>13, <3>3
      <4> QED  BY <1>7, <1>11, <1>12, <1>13, <2>2, <3>1, <3>3, <4>1
    <3> QED  BY <3>2, <3>3
  <2> QED  BY <2>1, <2>2
<1>21. q.age = m.age
  <2>1. b.remote.age \in Nat /\ AckEdges \in Nat /\ ~(0 > AckEdges)
    <3>1. AckEdges \in Nat /\ ~(0 > AckEdges)
      BY BasicMessageAssumption
    <3> QED  BY <3>1, BasicTypes
  <2>2. /\ b.remote.kind = NoOp => Advanced(b).remote.age = 0
        /\ b.remote.kind # NoOp =>
              Advanced(b).remote.age = IF b.remote.age > AckEdges THEN b.remote.age
                                       ELSE b.remote.age + 1
    BY AdvancedOK
  <2> DEFINE a == Advanced(b).remote.age
  <2> HIDE DEF a
  <2>3. CASE request \/ hw.reply \/ ~r.remote_busy
    <3>1. n.remote.age = 0
      BY <1>10, <1>11, <2>2, <2>3
    <3>2. q.age = 0
      BY <1>13, <2>3
    <3> QED  BY <1>12, <2>1, <3>1, <3>2
  <2>4. CASE ~(request \/ hw.reply \/ ~r.remote_busy)
    <3>1. n.remote.age = a /\ b.remote.kind # NoOp
      BY <1>10, <1>11, <2>4 DEF a
    <3>2. q.age = IF r.age # AckEdges THEN r.age + 1 ELSE r.age
      BY <1>13, <2>4
    <3>3. a = IF b.remote.age > AckEdges THEN b.remote.age ELSE b.remote.age + 1
      BY <2>2, <3>1 DEF a
    <3>4. r.age = (IF b.remote.age > AckEdges THEN AckEdges ELSE b.remote.age)
          /\ m.age = (IF a > AckEdges THEN AckEdges ELSE a)
      BY <1>11, <1>12, <3>1
    <3> QED  BY <2>1, <3>2, <3>3, <3>4
  <2> QED  BY <2>3, <2>4
<1>22. q.missed = m.missed
  <2>1. Advanced(b).remote.missed /\ ~b.remote.missed
         <=> r.remote_busy /\ ~r.missed /\ r.age = AckEdges
    BY MissedAgrees
  <2>2. b.remote.missed => Advanced(b).remote.missed
    <3>1. CASE b.remote.kind = NoOp
      BY <3>1, BasicTypes
    <3>2. CASE b.remote.kind # NoOp /\ b.remote.missed
      <4>1. b.remote.age > AckEdges
        BY <3>2, BasicTypes
      <4>2. Advanced(b).remote.age > AckEdges
        BY <3>2, <4>1, AdvancedOK
      <4> QED  BY <4>2, AdvancedOK, BasicTypes
    <3> QED  BY <3>1, <3>2
  <2> DEFINE late == r.age = AckEdges
             now == Advanced(b).remote.missed
  <2>3. /\ now /\ ~b.remote.missed <=> r.remote_busy /\ ~r.missed /\ late
        /\ b.remote.missed => now
    BY <2>1, <2>2
  <2>4. q.missed <=> ~request /\ ~hw.reply /\ (r.missed \/ (r.remote_busy /\ ~r.missed /\ late))
    BY <1>13
  <2>5. m.missed <=> ~request /\ ~hw.reply /\ now
    BY <1>10, <1>12
  <2>6. r.missed <=> b.remote.missed
    BY <1>11
  <2> HIDE DEF late, now
  <2> QED  BY <1>14, <2>3, <2>4, <2>5, <2>6
<1> DEFINE mq == Meaning(q)
           mm == Meaning(m)
<1>23. mq \in Registers /\ mm \in Registers
  BY <1>2, <1>4, MeaningIs
<1>24. /\ mq.local_busy = mm.local_busy /\ mq.local_sent = mm.local_sent
       /\ mq.local_kind = mm.local_kind /\ mq.local_upper = mm.local_upper
       /\ mq.age = mm.age /\ mq.missed = mm.missed
  BY <1>2, <1>4, <1>16, <1>18, <1>21, <1>22, MeaningIs
<1>25. /\ mq.remote_busy = mm.remote_busy /\ mq.remote_kind = mm.remote_kind
       /\ mq.remote_upper = mm.remote_upper /\ mq.remote_rate = mm.remote_rate
  BY <1>2, <1>4, <1>17, <1>19, MeaningIs
<1>26. mq.local_first = mm.local_first
  <2>1. mq.local_first = (q.local_first /\ q.local_busy /\ q.remote_busy /\ ~q.local_sent
                           /\ q.local_kind = q.remote_kind)
    BY <1>2, MeaningIs
  <2>2. mm.local_first = (m.local_first /\ m.local_busy /\ m.remote_busy /\ ~m.local_sent
                           /\ m.local_kind = m.remote_kind)
    BY <1>4, MeaningIs
  <2> QED  BY <1>16, <1>17, <1>18, <1>19, <1>20, <2>1, <2>2
<1> HIDE DEF mq, mm
<1>27. mq = mm
  BY <1>23, <1>24, <1>25, <1>26, SameRegisters
<1> QED  BY <1>27 DEF mq, mm, q, m, n, e, hw

EndsAlone == \A b \in alone : BasicOK(b)

\* The circuit and the reference go through any edge alike.
LEMMA BasicAlike == EndsAlone => HardwareKeepsBasic
<1> SUFFICES ASSUME EndsAlone, NEW b \in alone, NEW x \in OpenInputs,
                    NEW stale \in StaleKinds(b)
             PROVE  LET e == Edge(b, x)
                        hw == HwBasic(RegistersOf(b, stale), x)
                    IN  /\ hw.ready = e.ready /\ hw.pending = e.pending /\ hw.waiting = e.waiting
                        /\ hw.owes = e.owes
                        /\ hw.words = [k \in DOMAIN e.words |-> {e.words[k]}]
                        /\ hw.start = e.start /\ hw.commit = e.commit /\ hw.reply = e.reply
                        /\ hw.verdicts = {e.verdict} \ {"none"} /\ hw.learns = e.learns
                        /\ hw.missed = e.missed /\ hw.error = e.error
                        /\ Meaning(hw.registers) = Meaning(RegistersOf(e.next, NoOp))
  BY DEF HardwareKeepsBasic
<1> DEFINE e == Edge(b, x)
           r == RegistersOf(b, stale)
           hw == HwBasic(r, x)
<1>1. BasicOK(b) /\ InputOK(x)
  BY OpenInputsOK DEF EndsAlone
<1>2. stale \in Nat
  BY DEF StaleKinds, NoOp, Rate
<1>3. r \in Registers /\ StandsFor(r, b)
  BY <1>1, <1>2, RegistersTyped, RegistersStand
<1> HIDE DEF r
<1>4. /\ SameSteps(hw, e) /\ SameVerdict(hw, e, r, x) /\ SameFlags(hw, e)
      /\ hw.words = [k \in DOMAIN e.words |-> {e.words[k]}]
      /\ Meaning(hw.registers) = Meaning(RegistersOf(e.next, NoOp))
  BY <1>1, <1>3, StepsAgree, VerdictsAgree, FlagsAgree, WordsAgree, RegistersAgree
<1> HIDE DEF hw, e
<1>5. /\ hw.ready = e.ready /\ hw.start = e.start /\ hw.commit = e.commit /\ hw.reply = e.reply
      /\ hw.verdicts = {e.verdict} \ {"none"} /\ hw.learns = e.learns
      /\ hw.pending = e.pending /\ hw.waiting = e.waiting /\ hw.owes = e.owes
      /\ hw.missed = e.missed /\ hw.error = e.error
  BY <1>4 DEF SameSteps, SameVerdict, SameFlags
<1> QED  BY <1>4, <1>5 DEF hw, e, r

\* An end that is alone stays in order, whatever its environment does.
LEMMA AloneStarts == BasicOK(BasicReset)
<1> DEFINE b == BasicReset
           q == [k \in Kinds |-> << >>]
<1>1. b.local = NoLocal /\ b.remote = NoRemote /\ b.queues = q
  BY DEF BasicReset
<1>2. q \in [Kinds -> Queues]
  BY DEF Queues
<1>3. NoLocal \in Locals /\ NoLocal.kind = NoOp /\ LocalOK(NoLocal)
  BY DEF NoLocal, Locals, LocalOK
<1>4. NoRemote \in Remotes /\ NoRemote.kind = NoOp /\ RemoteOK(NoRemote)
  <2>1. 0 <= AckEdges + 1 /\ ~(0 > AckEdges)
    BY BasicMessageAssumption
  <2> QED  BY <2>1 DEF NoRemote, Remotes, RemoteOK
<1> HIDE DEF q
<1>5. b \in Basics
  BY <1>2, <1>3, <1>4 DEF Basics, BasicReset, q
<1> HIDE DEF b
<1>6. \A k \in Kinds : b.queues[k] \in QueuesFor(b.local.kind = k /\ ~b.local.sent, b.remote.kind = k)
  BY <1>1, <1>3, <1>4, KindsAre DEF QueuesFor, q
<1>7. BasicOK(b)
  BY <1>1, <1>3, <1>4, <1>5, <1>6 DEF BasicOK
<1> QED  BY <1>7 DEF b

LEMMA AloneContinues == EndsAlone /\ OpenEdge => EndsAlone'
<1> SUFFICES ASSUME EndsAlone, NEW b \in alone, NEW x \in LegalInputs,
                    alone' = {Edge(b, x).next}
             PROVE  EndsAlone'
  BY DEF OpenEdge
<1>1. BasicOK(b) /\ InputOK(x)
  BY OpenInputsOK DEF EndsAlone, LegalInputs
<1>2. EdgeResult(b, x, Edge(b, x))
  BY <1>1, EdgeIs
<1>3. BasicOK(Edge(b, x).next)
  BY <1>2 DEF EdgeResult
<1> QED  BY <1>3 DEF EndsAlone

-------------------------------------------------------------------------------
(* The source of transports.                                                   *)

Stagings == [payload : Seq(PayloadWords), reserved : 0..MaxPayload, remaining_load : 0..MaxPayload,
             header_sent : BOOLEAN, tx_counter : 0..CreditModulus - 1,
             latest_fc : 0..CreditModulus - 1]

\* The payload is what has been loaded and not sent.
SourceOK(s) ==
  /\ s \in Stagings /\ s.remaining_load <= s.reserved
  /\ ~s.header_sent => Len(s.payload) = s.reserved - s.remaining_load
  /\ s.header_sent => s.remaining_load = 0 /\ Len(s.payload) \in 1..s.reserved

SourceInputOK(x) ==
  /\ x.enabled \in BOOLEAN /\ x.fill \in Nat /\ x.take \in BOOLEAN /\ x.reset \in BOOLEAN
  /\ x.data = << >> \/ \E w \in PayloadWords : x.data = <<w>>
  /\ x.credit = NoCredit \/ x.credit \in 0..CreditModulus - 1

LEMMA SourceInputsOK ==
  ASSUME NEW x \in WithReset(SourceInputs)
  PROVE  SourceInputOK(x)
<1>1. ASSUME NEW y \in SourceInputs
      PROVE  SourceInputOK(y) /\ SourceInputOK([y EXCEPT !.reset = TRUE])
  <2>1. MaxPayload \in Nat /\ 0..MaxPayload + 1 \subseteq Nat
    BY UartCycleAssumption
  <2>2. /\ y.enabled \in BOOLEAN /\ y.fill \in Nat /\ y.take \in BOOLEAN /\ y.reset \in BOOLEAN
        /\ y.data = << >> \/ \E w \in PayloadWords : y.data = <<w>>
        /\ y.credit = NoCredit \/ y.credit \in 0..CreditModulus - 1
    BY <2>1 DEF SourceInputs
  <2> DEFINE z == [y EXCEPT !.reset = TRUE]
  <2>3. /\ z.enabled = y.enabled /\ z.fill = y.fill /\ z.take = y.take /\ z.reset = TRUE
        /\ z.data = y.data /\ z.credit = y.credit
    BY DEF SourceInputs
  <2> HIDE DEF z
  <2>4. SourceInputOK(y) /\ SourceInputOK(z)
    BY <2>2, <2>3 DEF SourceInputOK
  <2> QED  BY <2>4 DEF z
<1> QED  BY <1>1 DEF WithReset

\* The least of two and of three numbers.
LEMMA LeastOfTwo ==
  ASSUME NEW a \in Nat, NEW b \in Nat
  PROVE  Min({a, b}) = IF a <= b THEN a ELSE b
BY DEF Min

LEMMA LeastOfThree ==
  ASSUME NEW a \in Nat, NEW b \in Nat, NEW c \in Nat
  PROVE  Min({a, b, c}) = IF a <= b /\ a <= c THEN a ELSE IF b <= c THEN b ELSE c
BY DEF Min

\* The circuit takes the least in two steps.
LEMMA LeastInSteps ==
  ASSUME NEW a \in Nat, NEW b \in Nat, NEW c \in Nat \ {0}
  PROVE  /\ Min({a, b, c}) \in 0..c
         /\ Min({b, a}) \in Nat
         /\ Min({Min({b, a}), c}) = Min({a, b, c})
         /\ Min({b, a}) = 0 <=> Min({a, b, c}) = 0
<1>1. Min({b, a}) = (IF b <= a THEN b ELSE a) /\ Min({b, a}) \in Nat
  BY LeastOfTwo
<1>2. Min({Min({b, a}), c}) = IF Min({b, a}) <= c THEN Min({b, a}) ELSE c
  BY <1>1, LeastOfTwo
<1>3. Min({a, b, c}) = IF a <= b /\ a <= c THEN a ELSE IF b <= c THEN b ELSE c
  BY LeastOfThree
<1> DEFINE two == Min({b, a})
           three == Min({a, b, c})
           steps == Min({Min({b, a}), c})
<1> HIDE DEF two, three, steps
<1>4. /\ two = (IF b <= a THEN b ELSE a) /\ steps = (IF two <= c THEN two ELSE c)
      /\ three = IF a <= b /\ a <= c THEN a ELSE IF b <= c THEN b ELSE c
  BY <1>1, <1>2, <1>3 DEF two, three, steps
<1>5. three \in 0..c /\ two \in Nat /\ steps = three /\ (two = 0 <=> three = 0)
  BY <1>4
<1> QED  BY <1>5 DEF two, three, steps

\* What is left of the credit.
LEMMA CreditLeft ==
  ASSUME NEW a \in 0..CreditModulus - 1, NEW b \in Int
  PROVE  /\ (a - b) % CreditModulus \in 0..CreditModulus - 1
         /\ (a + b) % CreditModulus \in 0..CreditModulus - 1
BY UartCycleAssumption

LEMMA ReservedIs ==
  ASSUME NEW s, SourceOK(s), NEW x, SourceInputOK(x)
  PROVE  /\ Reserved(s, x) \in 0..MaxPayload
         /\ LET limit == Min({(s.latest_fc - s.tx_counter) % CreditModulus, x.fill})
            IN  /\ Reserved(s, x) = 0 <=> ~x.enabled \/ limit = 0
                /\ x.enabled => Min({limit, MaxPayload}) = Reserved(s, x)
<1> DEFINE credit == (s.latest_fc - s.tx_counter) % CreditModulus
           limit == Min({credit, x.fill})
<1>1. credit \in Nat
  <2>1. s.latest_fc \in 0..CreditModulus - 1 /\ s.tx_counter \in Int
    BY UartCycleAssumption DEF SourceOK, Stagings
  <2>2. credit \in 0..CreditModulus - 1
    BY <2>1, CreditLeft
  <2> QED  BY <2>2, UartCycleAssumption
<1>2. x.fill \in Nat /\ MaxPayload \in Nat \ {0} /\ x.enabled \in BOOLEAN
  BY UartCycleAssumption DEF SourceInputOK
<1>3. Reserved(s, x) = IF x.enabled THEN Min({x.fill, credit, MaxPayload}) ELSE 0
  BY DEF Reserved
<1> HIDE DEF credit
<1>4. /\ Min({x.fill, credit, MaxPayload}) \in 0..MaxPayload
      /\ Min({limit, MaxPayload}) = Min({x.fill, credit, MaxPayload})
      /\ limit = 0 <=> Min({x.fill, credit, MaxPayload}) = 0
  BY <1>1, <1>2, LeastInSteps
<1> HIDE DEF limit
<1>5. /\ Reserved(s, x) \in 0..MaxPayload
      /\ Reserved(s, x) = 0 <=> ~x.enabled \/ limit = 0
      /\ x.enabled => Min({limit, MaxPayload}) = Reserved(s, x)
  BY <1>2, <1>3, <1>4
<1> QED  BY <1>5 DEF limit, credit

LEMMA SourceTypes ==
  ASSUME NEW s, SourceOK(s)
  PROVE  /\ s \in Stagings /\ s.payload \in Seq(PayloadWords) /\ Len(s.payload) \in Nat
         /\ s.reserved \in Nat /\ s.remaining_load \in Nat
         /\ s.reserved <= MaxPayload /\ s.remaining_load <= s.reserved
         /\ s.header_sent \in BOOLEAN
         /\ s.tx_counter \in 0..CreditModulus - 1 /\ s.latest_fc \in 0..CreditModulus - 1
         /\ ~s.header_sent => Len(s.payload) = s.reserved - s.remaining_load
         /\ s.header_sent => s.remaining_load = 0 /\ Len(s.payload) >= 1 /\ Len(s.payload) <= s.reserved
         /\ MaxPayload \in Nat /\ MaxPayload > 0
<1>1. s \in Stagings /\ MaxPayload \in Nat /\ MaxPayload > 0
  BY UartCycleAssumption DEF SourceOK
<1>2. s.payload \in Seq(PayloadWords) /\ Len(s.payload) \in Nat
  BY <1>1 DEF Stagings
<1>3. s.reserved \in 0..MaxPayload /\ s.remaining_load \in 0..MaxPayload
  BY <1>1 DEF Stagings
<1>4. s.header_sent \in BOOLEAN /\ s.tx_counter \in 0..CreditModulus - 1
      /\ s.latest_fc \in 0..CreditModulus - 1
  BY <1>1 DEF Stagings
<1>5. s.remaining_load <= s.reserved
  BY DEF SourceOK
<1>6. ~s.header_sent => Len(s.payload) = s.reserved - s.remaining_load
  BY DEF SourceOK
<1>7. s.header_sent => s.remaining_load = 0 /\ Len(s.payload) >= 1 /\ Len(s.payload) <= s.reserved
  <2>1. s.header_sent => s.remaining_load = 0 /\ Len(s.payload) \in 1..s.reserved
    BY DEF SourceOK
  <2> QED  BY <1>2, <1>3, <2>1
<1> QED  BY <1>1, <1>2, <1>3, <1>4, <1>5, <1>6, <1>7

\* Words that have gone out.
SentWords(s) == IF s.header_sent THEN s.reserved - Len(s.payload) ELSE 0

\* The registers stand for s.
SourceStands(r, s) ==
  /\ r.busy = (s.reserved # 0) /\ r.ready = (s.reserved # 0 /\ s.remaining_load = 0)
  /\ r.payload_count = s.reserved /\ r.loaded = s.reserved - s.remaining_load
  /\ r.word_index = IF s.header_sent THEN SentWords(s) + 1 ELSE 0
  /\ r.held = Len(s.payload) /\ r.tx = s.tx_counter /\ r.latest_fc = s.latest_fc
  /\ r.words = [i \in 0..MaxPayload - 1 |->
                  IF i >= SentWords(s) /\ i - SentWords(s) < Len(s.payload)
                  THEN s.payload[i - SentWords(s) + 1] ELSE Token]

LEMMA SourceRegistersStand ==
  ASSUME NEW s
  PROVE  SourceStands(SourceRegisters(s), s)
BY DEF SourceStands, SourceRegisters, SentWords

\* The word of the circuit is that of the source.
LEMMA SourceWordAgrees ==
  ASSUME NEW s, SourceOK(s), NEW r, SourceStands(r, s), s.reserved # 0, s.remaining_load = 0
  PROVE  /\ ~s.header_sent => r.word_index = 0
                              /\ ((r.payload_count - 1) % MaxPayload) + 1 = s.reserved
         /\ s.header_sent => r.word_index # 0
                             /\ r.words[(r.word_index - 1) % MaxPayload] = Head(s.payload)
<1>1. CASE ~s.header_sent
  <2>1. r.word_index = 0 /\ r.payload_count = s.reserved
    BY <1>1 DEF SourceStands
  <2>2. s.reserved - 1 \in 0..MaxPayload - 1 /\ MaxPayload \in Nat \ {0}
    BY SourceTypes
  <2>3. (s.reserved - 1) % MaxPayload = s.reserved - 1
    BY <2>2
  <2>4. s.reserved \in Nat /\ (s.reserved - 1) + 1 = s.reserved
    BY SourceTypes
  <2> QED  BY <1>1, <2>1, <2>3, <2>4
<1>2. CASE s.header_sent
  <2> DEFINE n == SentWords(s)
  <2>1. n = s.reserved - Len(s.payload) /\ r.word_index = n + 1
    BY <1>2 DEF SourceStands, SentWords
  <2>2. n \in 0..MaxPayload - 1 /\ MaxPayload \in Nat \ {0} /\ 0 < Len(s.payload)
    <3>1. /\ s.reserved \in Nat /\ s.reserved <= MaxPayload /\ MaxPayload \in Nat
          /\ Len(s.payload) \in Nat /\ Len(s.payload) >= 1 /\ Len(s.payload) <= s.reserved
      BY <1>2, SourceTypes
    <3> HIDE DEF n
    <3> QED  BY <2>1, <3>1
  <2>3. r.words[n] = s.payload[1]
    <3>1. r.words = [i \in 0..MaxPayload - 1 |->
                  IF i >= n /\ i - n < Len(s.payload)
                  THEN s.payload[i - n + 1] ELSE Token]
      BY DEF SourceStands
    <3> HIDE DEF n
    <3>2. r.words[n] = IF n >= n /\ n - n < Len(s.payload) THEN s.payload[n - n + 1] ELSE Token
      BY <2>2, <3>1
    <3>3. n >= n /\ n - n = 0 /\ n - n + 1 = 1
      BY <2>2
    <3> QED  BY <2>2, <3>2, <3>3
  <2> HIDE DEF n
  <2>4. (r.word_index - 1) % MaxPayload = n /\ r.word_index # 0
    BY <2>1, <2>2
  <2>5. Head(s.payload) = s.payload[1]
    BY SourceTypes, <2>2
  <2> QED  BY <1>2, <2>3, <2>4, <2>5
<1> QED  BY <1>1, <1>2

\* The circuit shows what the source shows.
LEMMA SourceShowsAlike ==
  ASSUME NEW s, SourceOK(s), NEW r, SourceStands(r, s), NEW x, SourceInputOK(x)
  PROVE  HwSource(r, x).signals = SourceSignals(s, x)
<1> DEFINE hw == HwSource(r, x)
           z == hw.signals
           y == SourceSignals(s, x)
           pending == x.enabled /\ s.reserved # 0 /\ s.remaining_load = 0
<1>1. /\ r.busy = (s.reserved # 0) /\ r.ready = (s.reserved # 0 /\ s.remaining_load = 0)
      /\ r.payload_count = s.reserved
      /\ r.word_index = IF s.header_sent THEN SentWords(s) + 1 ELSE 0
      /\ r.held = Len(s.payload) /\ r.tx = s.tx_counter /\ r.latest_fc = s.latest_fc
  BY DEF SourceStands
<1>2. /\ x.enabled \in BOOLEAN /\ x.take \in BOOLEAN /\ x.reset \in BOOLEAN
  BY DEF SourceInputOK
<1>3. /\ s.reserved \in Nat /\ Len(s.payload) \in Nat /\ s.remaining_load \in Nat
      /\ ~s.header_sent => Len(s.payload) = s.reserved - s.remaining_load
      /\ s.header_sent => s.remaining_load = 0 /\ Len(s.payload) >= 1 /\ Len(s.payload) <= s.reserved
      /\ s.header_sent \in BOOLEAN
  BY SourceTypes
<1>4. SentWords(s) = IF s.header_sent THEN s.reserved - Len(s.payload) ELSE 0
  BY DEF SentWords
<1>5. s.header_sent => s.reserved # 0 /\ r.word_index # 0
  BY <1>1, <1>3, <1>4
<1>6. CASE x.reset
  BY <1>6 DEF HwSource, SourceSignals, SourceQuiet
<1>7. CASE ~x.reset
  <2>1. SourcePending(s, x) = pending
    BY DEF SourcePending
  <2>2. z.payload_ready = y.payload_ready
    <3>1. z.payload_ready = (~x.reset /\ x.enabled /\ r.busy /\ ~r.ready)
      BY DEF HwSource
    <3>2. y.payload_ready = (x.enabled /\ s.remaining_load # 0)
      BY <1>7 DEF SourceSignals
    <3>3. s.remaining_load # 0 => s.reserved # 0
      BY SourceTypes
    <3> QED  BY <1>1, <1>7, <3>1, <3>2, <3>3
  <2>3. z.pending = pending /\ y.pending = pending
    BY <1>1, <1>7, <2>1 DEF HwSource, SourceSignals
  <2>4. z.word = y.word
    <3>1. z.word = CASE ~pending -> <<"none", 0>>
                     [] pending /\ r.word_index = 0 ->
                          <<"header", ((r.payload_count - 1) % MaxPayload) + 1>>
                     [] OTHER -> <<"data", r.words[(r.word_index - 1) % MaxPayload]>>
      BY <1>1, <1>7 DEF HwSource
    <3>2. y.word = CASE ~pending -> <<"none", 0>>
                       [] pending /\ ~s.header_sent -> <<"header", s.reserved>>
                       [] pending /\ s.header_sent -> <<"data", Head(s.payload)>>
      BY <1>7, <2>1 DEF SourceSignals
    <3> DEFINE p == pending
    <3>3. p => /\ ~s.header_sent => r.word_index = 0
                                    /\ ((r.payload_count - 1) % MaxPayload) + 1 = s.reserved
               /\ s.header_sent => r.word_index # 0
                                   /\ r.words[(r.word_index - 1) % MaxPayload] = Head(s.payload)
      BY SourceWordAgrees
    <3> HIDE DEF y, z, p
    <3>4. CASE ~p
      BY <3>1, <3>2, <3>4 DEF p
    <3>5. CASE p /\ ~s.header_sent
      <4>1. z.word = <<"header", ((r.payload_count - 1) % MaxPayload) + 1>>
        BY <3>1, <3>3, <3>5 DEF p
      <4>2. y.word = <<"header", s.reserved>>
        BY <3>2, <3>5 DEF p
      <4> QED  BY <3>3, <3>5, <4>1, <4>2
    <3>6. CASE p /\ s.header_sent
      <4>1. z.word = <<"data", r.words[(r.word_index - 1) % MaxPayload]>>
        BY <3>1, <3>3, <3>6 DEF p
      <4>2. y.word = <<"data", Head(s.payload)>>
        BY <3>2, <3>6 DEF p
      <4> QED  BY <3>3, <3>6, <4>1, <4>2
    <3> QED  BY <1>3, <3>4, <3>5, <3>6
  <2>5. z.word_count = y.word_count
    BY <1>1, <1>7, <2>1 DEF HwSource, SourceSignals
  <2>6. z.word_index = y.word_index
    <3>1. z.word_index = IF pending THEN r.word_index ELSE 0
      BY <1>1, <1>7 DEF HwSource
    <3>2. y.word_index = IF pending /\ s.header_sent THEN s.reserved - Len(s.payload) + 1 ELSE 0
      BY <1>7, <2>1 DEF SourceSignals
    <3> QED  BY <1>1, <1>4, <3>1, <3>2
  <2>7. z.busy = y.busy /\ z.reserved_words = y.reserved_words /\ z.staged_words = y.staged_words
        /\ z.tx_counter = y.tx_counter /\ z.latest_fc = y.latest_fc
    BY <1>1, <1>7 DEF HwSource, SourceSignals
  <2>8. z.done = y.done
    <3>1. z.done = (pending /\ x.take /\ r.word_index = r.payload_count)
      BY <1>1, <1>7 DEF HwSource, TakesLast
    <3>2. y.done = (x.take /\ pending /\ s.header_sent /\ Len(s.payload) = 1)
      BY <1>7, <2>1 DEF SourceSignals
    <3>3. s.reserved # 0 => (r.word_index = r.payload_count <=> s.header_sent /\ Len(s.payload) = 1)
      <4>1. CASE s.header_sent
        <5>1. r.word_index = s.reserved - Len(s.payload) + 1 /\ r.payload_count = s.reserved
          BY <1>1, <1>4, <4>1
        <5>2. Len(s.payload) \in Nat /\ s.reserved \in Nat
          BY <1>3
        <5>3. r.word_index = r.payload_count <=> Len(s.payload) = 1
          <6> DEFINE l == Len(s.payload)
                     d == s.reserved
                     w == r.word_index
          <6>1. w = d - l + 1 /\ l \in Nat /\ d \in Nat
            BY <5>1, <5>2
          <6> HIDE DEF l, d, w
          <6>2. w = d <=> l = 1
            BY <6>1
          <6> QED  BY <5>1, <6>2 DEF l, d, w
        <5> QED  BY <4>1, <5>3
      <4>2. CASE ~s.header_sent
        BY <1>1, <4>2
      <4> QED  BY <4>1, <4>2
    <3> QED  BY <3>1, <3>2, <3>3
  <2>9. z.error = y.error
    <3>1. z.error = ((x.take /\ ~pending) \/ (~x.enabled /\ r.ready /\ r.word_index # 0))
      BY <1>1, <1>7 DEF HwSource
    <3>2. y.error = ((x.take /\ ~pending) \/ (~x.enabled /\ s.header_sent))
      BY <1>7, <2>1 DEF SourceSignals
    <3>3. r.ready /\ r.word_index # 0 <=> s.header_sent
      BY <1>1, <1>3, <1>5
    <3> QED  BY <3>1, <3>2, <3>3
  <2>10. z = [payload_ready |-> z.payload_ready, pending |-> z.pending, word |-> z.word,
              word_count |-> z.word_count, word_index |-> z.word_index, busy |-> z.busy,
              reserved_words |-> z.reserved_words, staged_words |-> z.staged_words,
              tx_counter |-> z.tx_counter, latest_fc |-> z.latest_fc, done |-> z.done,
              error |-> z.error]
    BY DEF HwSource
  <2>11. y = [payload_ready |-> y.payload_ready, pending |-> y.pending, word |-> y.word,
              word_count |-> y.word_count, word_index |-> y.word_index, busy |-> y.busy,
              reserved_words |-> y.reserved_words, staged_words |-> y.staged_words,
              tx_counter |-> y.tx_counter, latest_fc |-> y.latest_fc, done |-> y.done,
              error |-> y.error]
    BY <1>7 DEF SourceSignals
  <2> HIDE DEF z, y
  <2> QED  BY <2>2, <2>3, <2>4, <2>5, <2>6, <2>7, <2>8, <2>9, <2>10, <2>11 DEF z, y
<1> QED  BY <1>2, <1>6, <1>7

\* What an edge does to the source, field by field.
SourceFields(n, payload, reserved, remaining_load, header_sent, tx_counter) ==
  /\ n.payload = payload /\ n.reserved = reserved /\ n.remaining_load = remaining_load
  /\ n.header_sent = header_sent /\ n.tx_counter = tx_counter

Loads(s, x) == s.remaining_load # 0 /\ x.enabled /\ x.data # << >>
Sends(s, x) == s.reserved # 0 /\ s.remaining_load = 0 /\ x.enabled /\ x.take

SourceFieldSet == {"payload", "reserved", "remaining_load", "header_sent", "tx_counter", "latest_fc"}

StagingFields(n) == n = [i \in SourceFieldSet |-> n[i]]

SourceMoves(s, x, n) ==
  /\ StagingFields(n)
  /\ n.latest_fc = IF x.credit = NoCredit THEN s.latest_fc ELSE x.credit
  /\ s.reserved = 0 =>
       SourceFields(n, s.payload, Reserved(s, x), Reserved(s, x), s.header_sent, s.tx_counter)
  /\ s.reserved # 0 /\ Loads(s, x) =>
       SourceFields(n, s.payload \o x.data, s.reserved, s.remaining_load - 1, s.header_sent,
                    s.tx_counter)
  /\ s.reserved # 0 /\ Sends(s, x) /\ ~s.header_sent =>
       SourceFields(n, s.payload, s.reserved, s.remaining_load, TRUE, s.tx_counter)
  /\ s.reserved # 0 /\ Sends(s, x) /\ s.header_sent /\ Len(s.payload) > 1 =>
       SourceFields(n, Tail(s.payload), s.reserved, s.remaining_load, s.header_sent, s.tx_counter)
  /\ s.reserved # 0 /\ Sends(s, x) /\ s.header_sent /\ ~(Len(s.payload) > 1) =>
       SourceFields(n, << >>, 0, s.remaining_load, FALSE,
                    (s.tx_counter + s.reserved) % CreditModulus)
  /\ s.reserved # 0 /\ ~Loads(s, x) /\ ~Sends(s, x) =>
       SourceFields(n, s.payload, s.reserved, s.remaining_load, s.header_sent, s.tx_counter)

LEMMA SourceTakes ==
  ASSUME NEW s \in Stagings
  PROVE  /\ ~s.header_sent =>
              SourceFields(SourceTaken(s), s.payload, s.reserved, s.remaining_load, TRUE,
                           s.tx_counter)
         /\ s.header_sent /\ Len(s.payload) > 1 =>
              SourceFields(SourceTaken(s), Tail(s.payload), s.reserved, s.remaining_load,
                           s.header_sent, s.tx_counter)
         /\ s.header_sent /\ ~(Len(s.payload) > 1) =>
              SourceFields(SourceTaken(s), << >>, 0, s.remaining_load, FALSE,
                           (s.tx_counter + s.reserved) % CreditModulus)
         /\ SourceTaken(s).latest_fc = s.latest_fc
         /\ \E f : SourceTaken(s) = [i \in SourceFieldSet |-> f[i]]
<1> DEFINE t == SourceTaken(s)
<1>1. CASE ~s.header_sent
  <2>1. t = [s EXCEPT !.header_sent = TRUE]
    BY <1>1 DEF SourceTaken
  <2>2. SourceFields(t, s.payload, s.reserved, s.remaining_load, TRUE, s.tx_counter)
        /\ t.latest_fc = s.latest_fc
    BY <2>1 DEF Stagings, SourceFields
  <2>3. t = [i \in SourceFieldSet |-> t[i]]
    BY <2>1 DEF Stagings, SourceFieldSet
  <2> QED  BY <1>1, <2>2, <2>3
<1>2. CASE s.header_sent /\ Len(s.payload) > 1
  <2>1. t = [s EXCEPT !.payload = Tail(@)]
    BY <1>2 DEF SourceTaken
  <2>2. SourceFields(t, Tail(s.payload), s.reserved, s.remaining_load, s.header_sent, s.tx_counter)
        /\ t.latest_fc = s.latest_fc
    BY <2>1 DEF Stagings, SourceFields
  <2>3. t = [i \in SourceFieldSet |-> t[i]]
    BY <2>1 DEF Stagings, SourceFieldSet
  <2> QED  BY <1>2, <2>2, <2>3
<1>3. CASE s.header_sent /\ ~(Len(s.payload) > 1)
  <2> DEFINE c == (s.tx_counter + s.reserved) % CreditModulus
  <2>1. t = [s EXCEPT !.payload = << >>, !.tx_counter = c, !.reserved = 0, !.header_sent = FALSE]
    BY <1>3 DEF SourceTaken, Stagings
  <2> HIDE DEF c
  <2>2. SourceFields(t, << >>, 0, s.remaining_load, FALSE, c) /\ t.latest_fc = s.latest_fc
    BY <2>1 DEF Stagings, SourceFields
  <2>3. t = [i \in SourceFieldSet |-> t[i]]
    BY <2>1 DEF Stagings, SourceFieldSet
  <2> QED  BY <1>3, <2>2, <2>3 DEF c
<1> QED  BY <1>1, <1>2, <1>3

LEMMA SourceStepIs ==
  ASSUME NEW s, SourceOK(s), NEW x, SourceInputOK(x), ~x.reset
  PROVE  SourceMoves(s, x, SourceStep(s, x))
<1> DEFINE moved == CASE s.reserved = 0 ->
                           [s EXCEPT !.reserved = Reserved(s, x), !.remaining_load = Reserved(s, x)]
                      [] s.remaining_load # 0 /\ x.enabled /\ x.data # << >> ->
                           [s EXCEPT !.payload = @ \o x.data, !.remaining_load = @ - 1]
                      [] s.remaining_load = 0 /\ SourcePending(s, x) /\ x.take -> SourceTaken(s)
                      [] OTHER -> s
           n == SourceStep(s, x)
<1>1. s \in Stagings /\ s.remaining_load \in Nat
  BY SourceTypes
<1>2. s.reserved = 0 => s.remaining_load = 0
  BY SourceTypes
<1>3. n = IF x.credit = NoCredit THEN moved ELSE [moved EXCEPT !.latest_fc = x.credit]
  BY DEF SourceStep
<1>4. ASSUME NEW m, moved = m, NEW f, m = [i \in SourceFieldSet |-> f[i]],
             NEW a, NEW b, NEW c, NEW d, NEW e, SourceFields(m, a, b, c, d, e),
             m.latest_fc = s.latest_fc
      PROVE  /\ StagingFields(n)
             /\ SourceFields(n, a, b, c, d, e)
             /\ n.latest_fc = IF x.credit = NoCredit THEN s.latest_fc ELSE x.credit
  <2>1. n = IF x.credit = NoCredit THEN m ELSE [m EXCEPT !.latest_fc = x.credit]
    BY <1>3, <1>4
  <2> HIDE DEF n, moved
  <2>2. CASE x.credit = NoCredit
    BY <1>4, <2>1, <2>2 DEF StagingFields
  <2>3. CASE x.credit # NoCredit
    <3>1. n = [m EXCEPT !.latest_fc = x.credit]
      BY <2>1, <2>3
    <3>2. /\ n.payload = m.payload /\ n.reserved = m.reserved
          /\ n.remaining_load = m.remaining_load /\ n.header_sent = m.header_sent
          /\ n.tx_counter = m.tx_counter /\ n.latest_fc = x.credit
      BY <1>4, <3>1 DEF SourceFieldSet
    <3>3. n = [i \in SourceFieldSet |-> n[i]]
      BY <1>4, <3>1
    <3> QED  BY <1>4, <2>3, <3>2, <3>3 DEF SourceFields, StagingFields
  <2> QED  BY <2>2, <2>3
<1> HIDE DEF n
<1>5. CASE s.reserved = 0
  <2> DEFINE r == Reserved(s, x)
             m == [s EXCEPT !.reserved = r, !.remaining_load = r]
  <2>1. moved = m
    BY <1>2, <1>5 DEF SourcePending
  <2> HIDE DEF r, moved
  <2>2. /\ SourceFields(m, s.payload, r, r, s.header_sent, s.tx_counter)
        /\ m.latest_fc = s.latest_fc
    BY <1>1 DEF Stagings, SourceFields
  <2>3. m = [i \in SourceFieldSet |-> m[i]]
    BY <1>1 DEF Stagings, SourceFieldSet
  <2> HIDE DEF m
  <2>4. /\ StagingFields(n)
        /\ SourceFields(n, s.payload, r, r, s.header_sent, s.tx_counter)
        /\ n.latest_fc = IF x.credit = NoCredit THEN s.latest_fc ELSE x.credit
    BY <1>4, <2>1, <2>2, <2>3
  <2> QED  BY <1>5, <2>4 DEF SourceMoves, r, n
<1>6. CASE s.reserved # 0 /\ Loads(s, x)
  <2> DEFINE m == [s EXCEPT !.payload = @ \o x.data, !.remaining_load = @ - 1]
  <2>1. moved = m
    BY <1>6 DEF Loads
  <2> HIDE DEF moved
  <2>2. /\ SourceFields(m, s.payload \o x.data, s.reserved, s.remaining_load - 1, s.header_sent,
                        s.tx_counter)
        /\ m.latest_fc = s.latest_fc
    BY <1>1 DEF Stagings, SourceFields
  <2>3. m = [i \in SourceFieldSet |-> m[i]]
    BY <1>1 DEF Stagings, SourceFieldSet
  <2> HIDE DEF m
  <2>4. /\ StagingFields(n)
        /\ SourceFields(n, s.payload \o x.data, s.reserved, s.remaining_load - 1, s.header_sent,
                        s.tx_counter)
        /\ n.latest_fc = IF x.credit = NoCredit THEN s.latest_fc ELSE x.credit
    BY <1>4, <2>1, <2>2, <2>3
  <2>5. ~Sends(s, x)
    BY <1>6 DEF Sends, Loads
  <2> QED  BY <1>6, <2>4, <2>5 DEF SourceMoves, n
<1>7. CASE s.reserved # 0 /\ Sends(s, x)
  <2> DEFINE m == SourceTaken(s)
             c == (s.tx_counter + s.reserved) % CreditModulus
  <2>1. moved = m
    BY <1>7 DEF Sends, SourcePending
  <2> HIDE DEF moved
  <2>2. /\ ~s.header_sent =>
              SourceFields(m, s.payload, s.reserved, s.remaining_load, TRUE, s.tx_counter)
        /\ s.header_sent /\ Len(s.payload) > 1 =>
              SourceFields(m, Tail(s.payload), s.reserved, s.remaining_load,
                           s.header_sent, s.tx_counter)
        /\ s.header_sent /\ ~(Len(s.payload) > 1) =>
              SourceFields(m, << >>, 0, s.remaining_load, FALSE, c)
        /\ m.latest_fc = s.latest_fc
        /\ \E f : m = [i \in SourceFieldSet |-> f[i]]
    BY <1>1, SourceTakes
  <2> HIDE DEF m, c
  <2>3. ~Loads(s, x)
    BY <1>7 DEF Sends, Loads
  <2>4. CASE ~s.header_sent
    <3>1. /\ StagingFields(n)
          /\ SourceFields(n, s.payload, s.reserved, s.remaining_load, TRUE, s.tx_counter)
          /\ n.latest_fc = IF x.credit = NoCredit THEN s.latest_fc ELSE x.credit
      BY <1>4, <2>1, <2>2, <2>4
    <3> QED  BY <1>7, <2>3, <2>4, <3>1 DEF SourceMoves, n
  <2>5. CASE s.header_sent /\ Len(s.payload) > 1
    <3>1. /\ StagingFields(n)
          /\ SourceFields(n, Tail(s.payload), s.reserved, s.remaining_load, s.header_sent,
                          s.tx_counter)
          /\ n.latest_fc = IF x.credit = NoCredit THEN s.latest_fc ELSE x.credit
      BY <1>4, <2>1, <2>2, <2>5
    <3> QED  BY <1>7, <2>3, <2>5, <3>1 DEF SourceMoves, n
  <2>6. CASE s.header_sent /\ ~(Len(s.payload) > 1)
    <3>1. /\ StagingFields(n)
          /\ SourceFields(n, << >>, 0, s.remaining_load, FALSE, c)
          /\ n.latest_fc = IF x.credit = NoCredit THEN s.latest_fc ELSE x.credit
      BY <1>4, <2>1, <2>2, <2>6
    <3> QED  BY <1>7, <2>3, <2>6, <3>1 DEF SourceMoves, n, c
  <2> QED  BY <2>4, <2>5, <2>6
<1>8. CASE s.reserved # 0 /\ ~Loads(s, x) /\ ~Sends(s, x)
  <2>1. moved = s
    BY <1>8 DEF Loads, Sends, SourcePending
  <2> HIDE DEF moved
  <2>2. SourceFields(s, s.payload, s.reserved, s.remaining_load, s.header_sent, s.tx_counter)
    BY DEF SourceFields
  <2>3. s = [i \in SourceFieldSet |-> s[i]]
    BY <1>1 DEF Stagings, SourceFieldSet
  <2>4. /\ StagingFields(n)
        /\ SourceFields(n, s.payload, s.reserved, s.remaining_load, s.header_sent, s.tx_counter)
        /\ n.latest_fc = IF x.credit = NoCredit THEN s.latest_fc ELSE x.credit
    BY <1>4, <2>1, <2>2, <2>3
  <2> QED  BY <1>8, <2>4 DEF SourceMoves, n
<1> QED  BY <1>5, <1>6, <1>7, <1>8

\* One more word of payload.
LEMMA WordLoaded ==
  ASSUME NEW S, NEW p \in Seq(S), NEW w \in S
  PROVE  /\ p \o <<w>> \in Seq(S) /\ Len(p \o <<w>>) = Len(p) + 1
         /\ \A i \in 1..Len(p) : (p \o <<w>>)[i] = p[i]
         /\ (p \o <<w>>)[Len(p) + 1] = w
<1>1. Append(p, w) = p \o <<w>>
  BY AppendIsConcat, Zenon
<1>2. /\ Append(p, w) \in Seq(S)
      /\ Len(Append(p, w)) = Len(p) + 1
      /\ \A i \in 1.. Len(p) : Append(p, w)[i] = p[i]
      /\ Append(p, w)[Len(p) + 1] = w
  BY AppendProperties
<1> QED  BY <1>1, <1>2, Zenon

LEMMA SourceStarts == SourceOK(SourceReset)
<1>1. 0 \in 0..MaxPayload /\ 0 \in 0..CreditModulus - 1
  BY UartCycleAssumption
<1>2. << >> \in Seq(PayloadWords) /\ Len(<< >>) = 0
  OBVIOUS
<1>3. SourceReset \in Stagings
  BY <1>1, <1>2 DEF SourceReset, Stagings
<1> QED  BY <1>1, <1>2, <1>3 DEF SourceReset, SourceOK

\* From the fields.
SourceShape(n) ==
  /\ StagingFields(n) /\ n.payload \in Seq(PayloadWords)
  /\ n.reserved \in 0..MaxPayload /\ n.remaining_load \in Nat /\ n.remaining_load <= n.reserved
  /\ n.header_sent \in BOOLEAN /\ n.tx_counter \in 0..CreditModulus - 1
  /\ n.latest_fc \in 0..CreditModulus - 1
  /\ ~n.header_sent => Len(n.payload) = n.reserved - n.remaining_load
  /\ n.header_sent => n.remaining_load = 0 /\ Len(n.payload) \in 1..n.reserved

LEMMA SourceBuilt ==
  ASSUME NEW n, SourceShape(n)
  PROVE  SourceOK(n)
<1>1. n.remaining_load \in 0..MaxPayload
  BY UartCycleAssumption DEF SourceShape
<1>2. n \in Stagings
  <2>1. /\ StagingFields(n) /\ n.payload \in Seq(PayloadWords)
        /\ n.reserved \in 0..MaxPayload
        /\ n.header_sent \in BOOLEAN /\ n.tx_counter \in 0..CreditModulus - 1
        /\ n.latest_fc \in 0..CreditModulus - 1
    BY DEF SourceShape
  <2> QED  BY <1>1, <2>1 DEF Stagings, SourceFieldSet, StagingFields
<1>3. /\ n.remaining_load <= n.reserved
      /\ ~n.header_sent => Len(n.payload) = n.reserved - n.remaining_load
      /\ n.header_sent => n.remaining_load = 0 /\ Len(n.payload) \in 1..n.reserved
  BY DEF SourceShape
<1> QED  BY <1>2, <1>3 DEF SourceOK

LEMMA SourceStays ==
  ASSUME NEW s, SourceOK(s), NEW x, SourceInputOK(x), ~x.reset
  PROVE  SourceOK(SourceStep(s, x))
<1> DEFINE n == SourceStep(s, x)
<1>1. SourceMoves(s, x, n)
  BY SourceStepIs
<1> SUFFICES SourceOK(n)
  OBVIOUS
<1> HIDE DEF n
<1>2. /\ s.payload \in Seq(PayloadWords) /\ Len(s.payload) \in Nat
      /\ s.reserved \in Nat /\ s.remaining_load \in Nat
      /\ s.reserved <= MaxPayload /\ s.remaining_load <= s.reserved /\ s.header_sent \in BOOLEAN
      /\ s.tx_counter \in 0..CreditModulus - 1 /\ s.latest_fc \in 0..CreditModulus - 1
      /\ ~s.header_sent => Len(s.payload) = s.reserved - s.remaining_load
      /\ s.header_sent => s.remaining_load = 0 /\ Len(s.payload) >= 1 /\ Len(s.payload) <= s.reserved
      /\ MaxPayload \in Nat
  BY SourceTypes
<1>3. n.latest_fc \in 0..CreditModulus - 1 /\ StagingFields(n)
  BY <1>1, <1>2 DEF SourceMoves, SourceInputOK
<1>4. s.reserved \in 0..MaxPayload
  BY <1>2
<1>5. CASE s.reserved = 0
  <2>1. SourceFields(n, s.payload, Reserved(s, x), Reserved(s, x), s.header_sent, s.tx_counter)
    BY <1>1, <1>5 DEF SourceMoves
  <2>2. Reserved(s, x) \in 0..MaxPayload
    BY ReservedIs
  <2>3. ~s.header_sent /\ Len(s.payload) = 0
    BY <1>2, <1>5
  <2> DEFINE r == Reserved(s, x)
  <2> HIDE DEF r
  <2>4. r \in 0..MaxPayload /\ r \in Nat /\ r <= r /\ r - r = 0
    BY <2>2, <1>2 DEF r
  <2> QED  BY <1>2, <1>3, <2>1, <2>3, <2>4, SourceBuilt DEF SourceShape, SourceFields, r
<1>6. CASE s.reserved # 0 /\ Loads(s, x)
  <2>1. SourceFields(n, s.payload \o x.data, s.reserved, s.remaining_load - 1, s.header_sent,
                     s.tx_counter)
    BY <1>1, <1>6 DEF SourceMoves
  <2>2. PICK w \in PayloadWords : x.data = <<w>>
    BY <1>6 DEF SourceInputOK, Loads
  <2>3. s.payload \o x.data \in Seq(PayloadWords) /\ Len(s.payload \o x.data) = Len(s.payload) + 1
    <3>1. s.payload \in Seq(PayloadWords)
      BY <1>2
    <3> QED  BY <2>2, <3>1, WordLoaded
  <2>4. s.remaining_load # 0 /\ ~s.header_sent
    BY <1>2, <1>6 DEF Loads
  <2>5. s.remaining_load - 1 \in Nat /\ s.remaining_load - 1 <= s.reserved
        /\ Len(s.payload) + 1 = s.reserved - (s.remaining_load - 1)
    BY <1>2, <2>4
  <2>6. /\ n.payload \in Seq(PayloadWords) /\ n.reserved = s.reserved
        /\ n.remaining_load = s.remaining_load - 1 /\ n.header_sent = FALSE
        /\ n.tx_counter = s.tx_counter /\ Len(n.payload) = Len(s.payload) + 1
    BY <1>2, <2>1, <2>3, <2>4 DEF SourceFields
  <2> QED  BY <1>2, <1>3, <1>4, <2>5, <2>6, SourceBuilt DEF SourceShape
<1>7. CASE s.reserved # 0 /\ Sends(s, x) /\ ~s.header_sent
  <2>1. SourceFields(n, s.payload, s.reserved, s.remaining_load, TRUE, s.tx_counter)
    BY <1>1, <1>7 DEF SourceMoves
  <2>2. s.remaining_load = 0
    BY <1>7 DEF Sends
  <2>3. Len(s.payload) \in 1..s.reserved /\ 0 \in Nat /\ 0 <= s.reserved
    BY <1>2, <1>7, <2>2
  <2> QED  BY <1>2, <1>3, <1>4, <2>1, <2>2, <2>3, SourceBuilt DEF SourceShape, SourceFields
<1>8. CASE s.reserved # 0 /\ Sends(s, x) /\ s.header_sent /\ Len(s.payload) > 1
  <2>1. SourceFields(n, Tail(s.payload), s.reserved, s.remaining_load, s.header_sent, s.tx_counter)
    BY <1>1, <1>8 DEF SourceMoves
  <2>2. Tail(s.payload) \in Seq(PayloadWords) /\ Len(Tail(s.payload)) = Len(s.payload) - 1
    <3>1. s.payload # << >>
      BY <1>2, <1>8
    <3> QED  BY <1>2, <3>1
  <2>3. Len(s.payload) - 1 \in 1..s.reserved
    BY <1>2, <1>8
  <2>4. /\ n.payload \in Seq(PayloadWords) /\ n.reserved = s.reserved
        /\ n.remaining_load = s.remaining_load /\ n.header_sent = TRUE
        /\ n.tx_counter = s.tx_counter /\ Len(n.payload) \in 1..n.reserved
    BY <1>2, <1>8, <2>1, <2>2, <2>3 DEF SourceFields
  <2> QED  BY <1>2, <1>3, <1>4, <1>8, <2>4, SourceBuilt DEF SourceShape
<1>9. CASE s.reserved # 0 /\ Sends(s, x) /\ s.header_sent /\ ~(Len(s.payload) > 1)
  <2>1. SourceFields(n, << >>, 0, s.remaining_load, FALSE,
                     (s.tx_counter + s.reserved) % CreditModulus)
    BY <1>1, <1>9 DEF SourceMoves
  <2>2. (s.tx_counter + s.reserved) % CreditModulus \in 0..CreditModulus - 1
    BY <1>2, CreditLeft
  <2>3. << >> \in Seq(PayloadWords) /\ Len(<< >>) = 0 /\ 0 \in 0..MaxPayload
    BY <1>2
  <2>4. s.remaining_load = 0
    BY <1>9 DEF Sends
  <2>5. /\ n.payload \in Seq(PayloadWords) /\ n.reserved = 0
        /\ n.remaining_load = 0 /\ n.header_sent = FALSE
        /\ n.tx_counter \in 0..CreditModulus - 1 /\ Len(n.payload) = 0
    BY <2>1, <2>2, <2>3, <2>4 DEF SourceFields
  <2>6. 0 \in Nat /\ 0 <= 0 /\ 0 - 0 = 0
    OBVIOUS
  <2> QED  BY <1>3, <2>3, <2>5, <2>6, SourceBuilt DEF SourceShape
<1>10. CASE s.reserved # 0 /\ ~Loads(s, x) /\ ~Sends(s, x)
  <2>1. SourceFields(n, s.payload, s.reserved, s.remaining_load, s.header_sent, s.tx_counter)
    BY <1>1, <1>10 DEF SourceMoves
  <2>2. s.header_sent => Len(s.payload) \in 1..s.reserved
    BY <1>2
  <2> QED  BY <1>2, <1>3, <1>4, <2>1, <2>2, SourceBuilt DEF SourceShape, SourceFields
<1> QED  BY <1>5, <1>6, <1>7, <1>8, <1>9, <1>10

\* What the circuit does at an edge that is no reset.
SourceCircuit(q, r, x, limit, capture, load, take, complete) ==
  /\ q.busy = (~complete /\ (capture \/ r.busy))
  /\ q.ready = (/\ ~complete /\ ~capture
                /\ r.ready \/ (load /\ r.loaded + 1 = r.payload_count))
  /\ q.payload_count = IF complete THEN 0 ELSE IF capture THEN Min({limit, MaxPayload})
                       ELSE r.payload_count
  /\ q.loaded = IF complete \/ capture THEN 0 ELSE IF load THEN r.loaded + 1 ELSE r.loaded
  /\ q.word_index = IF complete \/ capture THEN 0 ELSE IF take THEN r.word_index + 1
                    ELSE r.word_index
  /\ q.held = IF complete \/ capture THEN 0 ELSE IF load THEN r.held + 1
              ELSE IF take /\ r.word_index # 0 THEN r.held - 1 ELSE r.held
  /\ q.tx = IF complete THEN (r.tx + r.payload_count) % CreditModulus ELSE r.tx
  /\ q.latest_fc = IF x.credit = NoCredit THEN r.latest_fc ELSE x.credit
  /\ q.words = [i \in DOMAIN r.words |-> IF load /\ r.loaded = i THEN x.data[1] ELSE r.words[i]]

LEMMA SourceCircuitIs ==
  ASSUME NEW r, NEW x, ~x.reset
  PROVE  LET limit == Min({(r.latest_fc - r.tx) % CreditModulus, x.fill})
             capture == x.enabled /\ ~r.busy /\ limit # 0
             load == x.enabled /\ r.busy /\ ~r.ready /\ x.data # << >>
             take == x.enabled /\ r.busy /\ r.ready /\ x.take
         IN  SourceCircuit(HwSource(r, x).registers, r, x, limit, capture, load, take,
                           take /\ TakesLast(r))
<1> DEFINE limit == Min({(r.latest_fc - r.tx) % CreditModulus, x.fill})
           capture == x.enabled /\ ~r.busy /\ limit # 0
           load == x.enabled /\ r.busy /\ ~r.ready /\ x.data # << >>
           take == x.enabled /\ r.busy /\ r.ready /\ x.take
           complete == take /\ TakesLast(r)
           anew == complete \/ capture
           q == HwSource(r, x).registers
<1>1. ~(take /\ load)
  OBVIOUS
<1>2. q.busy = (~complete /\ (capture \/ r.busy))
  BY DEF HwSource
<1>3. q.ready = (~anew /\ (r.ready \/ (load /\ r.loaded + 1 = r.payload_count)))
  BY DEF HwSource
<1>4. q.payload_count = CASE complete -> 0
                          [] ~complete /\ capture -> Min({limit, MaxPayload})
                          [] OTHER -> r.payload_count
  BY DEF HwSource
<1>5. q.loaded = CASE anew -> 0 [] ~anew /\ load -> r.loaded + 1 [] OTHER -> r.loaded
  BY DEF HwSource
<1>6. q.word_index = CASE anew -> 0 [] ~anew /\ take -> r.word_index + 1 [] OTHER -> r.word_index
  BY DEF HwSource
<1>7. q.held = CASE anew -> 0
                 [] ~anew /\ load -> r.held + 1
                 [] ~anew /\ take /\ r.word_index # 0 -> r.held - 1
                 [] OTHER -> r.held
  BY DEF HwSource
<1>8. q.tx = (IF complete THEN (r.tx + r.payload_count) % CreditModulus ELSE r.tx)
      /\ q.latest_fc = (IF x.credit = NoCredit THEN r.latest_fc ELSE x.credit)
  BY DEF HwSource
<1>9. q.words = [i \in DOMAIN r.words |-> IF load /\ r.loaded = i THEN x.data[1] ELSE r.words[i]]
  BY DEF HwSource
<1> HIDE DEF q, limit, capture, load, take, complete
<1>10. SourceCircuit(q, r, x, limit, capture, load, take, complete)
  BY <1>1, <1>2, <1>3, <1>4, <1>5, <1>6, <1>7, <1>8, <1>9 DEF SourceCircuit
<1> QED  BY <1>10 DEF q, limit, capture, load, take, complete

\* The registers have the same names everywhere.
SourceRegisterNames == {"busy", "ready", "payload_count", "loaded", "word_index", "held", "tx",
                        "latest_fc", "words"}

LEMMA SourceCircuitNames ==
  ASSUME NEW r, NEW x, ~x.reset
  PROVE  HwSource(r, x).registers = [i \in SourceRegisterNames |-> HwSource(r, x).registers[i]]
<1> DEFINE q == HwSource(r, x).registers
<1>1. q = [busy |-> q.busy, ready |-> q.ready, payload_count |-> q.payload_count,
           loaded |-> q.loaded, word_index |-> q.word_index, held |-> q.held, tx |-> q.tx,
           latest_fc |-> q.latest_fc, words |-> q.words]
  BY DEF HwSource
<1> HIDE DEF q
<1>2. q = [i \in SourceRegisterNames |-> q[i]]
  BY <1>1 DEF SourceRegisterNames
<1> QED  BY <1>2 DEF q

\* The registers q and the state n say the same.
StagedWord(n, i) ==
  IF i >= SentWords(n) /\ i - SentWords(n) < Len(n.payload)
  THEN n.payload[i - SentWords(n) + 1] ELSE Token

SourceGoes(q, n) ==
  /\ q.busy = (n.reserved # 0) /\ q.ready = (n.reserved # 0 /\ n.remaining_load = 0)
  /\ q.payload_count = n.reserved /\ q.loaded = n.reserved - n.remaining_load
  /\ q.word_index = (IF n.header_sent THEN SentWords(n) + 1 ELSE 0)
  /\ q.held = Len(n.payload) /\ q.tx = n.tx_counter /\ q.latest_fc = n.latest_fc
  /\ DOMAIN q.words = 0..MaxPayload - 1
  /\ \A i \in 0..MaxPayload - 1 :
       (IF SentWords(n) <= i /\ i < q.loaded THEN q.words[i] ELSE Token) = StagedWord(n, i)

LEMMA SourceMeets ==
  ASSUME NEW n, SourceOK(n), NEW q, q = [i \in SourceRegisterNames |-> q[i]], SourceGoes(q, n)
  PROVE  SourceMeaning(q) = SourceRegisters(n)
<1> DEFINE sent == IF q.word_index = 0 THEN 0 ELSE q.word_index - 1
           words == [i \in DOMAIN q.words |->
                       IF sent <= i /\ i < q.loaded THEN q.words[i] ELSE Token]
           target == [i \in 0..MaxPayload - 1 |-> StagedWord(n, i)]
           m == SourceMeaning(q)
           t == SourceRegisters(n)
<1>1. /\ n.reserved \in Nat /\ Len(n.payload) \in Nat /\ n.header_sent \in BOOLEAN
      /\ n.header_sent => Len(n.payload) <= n.reserved
  BY SourceTypes
<1>2. SentWords(n) \in Nat
  <2>1. CASE n.header_sent
    <3>1. Len(n.payload) <= n.reserved
      BY <1>1, <2>1
    <3>2. n.reserved - Len(n.payload) \in Nat
      BY <1>1, <3>1
    <3> QED  BY <2>1, <3>2 DEF SentWords
  <2>2. CASE ~n.header_sent
    BY <2>2 DEF SentWords
  <2> QED  BY <2>1, <2>2
<1>3. sent = SentWords(n)
  <2>1. q.word_index = (IF n.header_sent THEN SentWords(n) + 1 ELSE 0)
    BY DEF SourceGoes
  <2>2. ~n.header_sent => SentWords(n) = 0
    BY DEF SentWords
  <2> QED  BY <1>2, <2>1, <2>2
<1>4. words = target
  <2> HIDE DEF sent
  <2>1. /\ DOMAIN q.words = 0..MaxPayload - 1
        /\ \A i \in 0..MaxPayload - 1 :
             (IF SentWords(n) <= i /\ i < q.loaded THEN q.words[i] ELSE Token) = StagedWord(n, i)
    BY DEF SourceGoes
  <2>2. \A i \in 0..MaxPayload - 1 :
          (IF sent <= i /\ i < q.loaded THEN q.words[i] ELSE Token) = StagedWord(n, i)
    BY <1>3, <2>1
  <2> QED  BY <2>1, <2>2, Zenon
<1>5. m = [q EXCEPT !.words = words]
  BY DEF SourceMeaning
<1>6. t = [busy |-> n.reserved # 0, ready |-> n.reserved # 0 /\ n.remaining_load = 0,
           payload_count |-> n.reserved, loaded |-> n.reserved - n.remaining_load,
           word_index |-> IF n.header_sent THEN SentWords(n) + 1 ELSE 0,
           held |-> Len(n.payload), tx |-> n.tx_counter, latest_fc |-> n.latest_fc,
           words |-> target]
  <2>1. t.words = target
    BY DEF SourceRegisters, StagedWord, SentWords
  <2> HIDE DEF target
  <2>2. t = [busy |-> n.reserved # 0, ready |-> n.reserved # 0 /\ n.remaining_load = 0,
             payload_count |-> n.reserved, loaded |-> n.reserved - n.remaining_load,
             word_index |-> IF n.header_sent THEN SentWords(n) + 1 ELSE 0,
             held |-> Len(n.payload), tx |-> n.tx_counter, latest_fc |-> n.latest_fc,
             words |-> t.words]
    BY DEF SourceRegisters, SentWords
  <2> HIDE DEF t
  <2> QED  BY <2>1, <2>2
<1>7. /\ q.busy = (n.reserved # 0) /\ q.ready = (n.reserved # 0 /\ n.remaining_load = 0)
      /\ q.payload_count = n.reserved /\ q.loaded = n.reserved - n.remaining_load
      /\ q.word_index = (IF n.header_sent THEN SentWords(n) + 1 ELSE 0)
      /\ q.held = Len(n.payload) /\ q.tx = n.tx_counter /\ q.latest_fc = n.latest_fc
  BY DEF SourceGoes
<1> HIDE DEF words, target, m, t
<1>8. t = [i \in SourceRegisterNames |-> t[i]] /\ m = [i \in SourceRegisterNames |-> m[i]]
  BY <1>5, <1>6 DEF SourceRegisterNames
<1>9. /\ m.busy = q.busy /\ m.ready = q.ready /\ m.payload_count = q.payload_count
      /\ m.loaded = q.loaded /\ m.word_index = q.word_index /\ m.held = q.held /\ m.tx = q.tx
      /\ m.latest_fc = q.latest_fc /\ m.words = words
  BY <1>5 DEF SourceRegisterNames
<1>10. \A i \in SourceRegisterNames : m[i] = t[i]
  BY <1>4, <1>6, <1>7, <1>9 DEF SourceRegisterNames
<1> QED  BY <1>8, <1>10, Zenon DEF m, t

\* The words that have been staged are those of the registers.
LEMMA StagedWords ==
  ASSUME NEW s, SourceOK(s), NEW r, SourceStands(r, s)
  PROVE  /\ DOMAIN r.words = 0..MaxPayload - 1
         /\ \A i \in 0..MaxPayload - 1 : r.words[i] = StagedWord(s, i)
<1>1. r.words = [i \in 0..MaxPayload - 1 |-> StagedWord(s, i)]
  BY DEF SourceStands, StagedWord
<1> QED  BY <1>1

\* What an edge of the circuit depends on, said of the source.
SourceChoices(s, x, r, limit, capture, load, take, complete) ==
  /\ capture <=> s.reserved = 0 /\ Reserved(s, x) # 0
  /\ capture => Min({limit, MaxPayload}) = Reserved(s, x)
  /\ load <=> s.reserved # 0 /\ Loads(s, x)
  /\ take <=> Sends(s, x)
  /\ complete <=> Sends(s, x) /\ s.header_sent /\ ~(Len(s.payload) > 1)

LEMMA SourceChoosesAlike ==
  ASSUME NEW s, SourceOK(s), NEW r, SourceStands(r, s), NEW x, SourceInputOK(x)
  PROVE  LET limit == Min({(r.latest_fc - r.tx) % CreditModulus, x.fill})
             capture == x.enabled /\ ~r.busy /\ limit # 0
             load == x.enabled /\ r.busy /\ ~r.ready /\ x.data # << >>
             take == x.enabled /\ r.busy /\ r.ready /\ x.take
         IN  SourceChoices(s, x, r, limit, capture, load, take, take /\ TakesLast(r))
<1> DEFINE limit == Min({(r.latest_fc - r.tx) % CreditModulus, x.fill})
           capture == x.enabled /\ ~r.busy /\ limit # 0
           load == x.enabled /\ r.busy /\ ~r.ready /\ x.data # << >>
           take == x.enabled /\ r.busy /\ r.ready /\ x.take
           complete == take /\ TakesLast(r)
<1>1. /\ r.busy = (s.reserved # 0) /\ r.ready = (s.reserved # 0 /\ s.remaining_load = 0)
      /\ r.payload_count = s.reserved
      /\ r.word_index = IF s.header_sent THEN SentWords(s) + 1 ELSE 0
      /\ r.tx = s.tx_counter /\ r.latest_fc = s.latest_fc
  BY DEF SourceStands
<1>2. /\ Reserved(s, x) = 0 <=> ~x.enabled \/ limit = 0
      /\ x.enabled => Min({limit, MaxPayload}) = Reserved(s, x)
  BY <1>1, ReservedIs
<1>3. s.reserved \in Nat /\ Len(s.payload) \in Nat
  BY SourceTypes
<1>4. s.header_sent => Len(s.payload) >= 1
  BY SourceTypes
<1>5. Sends(s, x) => (TakesLast(r) <=> s.header_sent /\ ~(Len(s.payload) > 1))
  <2> SUFFICES ASSUME Sends(s, x)
               PROVE  TakesLast(r) <=> s.header_sent /\ ~(Len(s.payload) > 1)
    OBVIOUS
  <2>1. CASE s.header_sent
    <3> DEFINE l == Len(s.payload)
               d == s.reserved
               w == r.word_index
    <3>1. w = d - l + 1 /\ l \in Nat /\ d \in Nat /\ l >= 1
      BY <1>1, <1>3, <1>4, <2>1 DEF SentWords
    <3> HIDE DEF l, d, w
    <3>2. w = d <=> ~(l > 1)
      BY <3>1
    <3> QED  BY <1>1, <2>1, <3>2 DEF TakesLast, l, d, w
  <2>2. CASE ~s.header_sent
    BY <1>1, <2>2 DEF TakesLast, Sends
  <2> QED  BY <2>1, <2>2
<1>6. take <=> Sends(s, x)
  BY <1>1 DEF Sends
<1>7. load <=> s.reserved # 0 /\ Loads(s, x)
  BY <1>1 DEF Loads
<1>8. capture <=> s.reserved = 0 /\ Reserved(s, x) # 0
  BY <1>1, <1>2
<1>9. complete <=> Sends(s, x) /\ s.header_sent /\ ~(Len(s.payload) > 1)
  BY <1>5, <1>6
<1>10. capture => Min({limit, MaxPayload}) = Reserved(s, x)
  BY <1>2
<1> HIDE DEF limit, capture, load, take, complete
<1>11. SourceChoices(s, x, r, limit, capture, load, take, complete)
  BY <1>6, <1>7, <1>8, <1>9, <1>10 DEF SourceChoices
<1> QED  BY <1>11 DEF limit, capture, load, take, complete

\* The circuit goes where the source goes.
LEMMA SourceGoesAlike ==
  ASSUME NEW s, SourceOK(s), NEW r, SourceStands(r, s), NEW x, SourceInputOK(x), ~x.reset
  PROVE  SourceGoes(HwSource(r, x).registers, SourceStep(s, x))
<1> DEFINE limit == Min({(r.latest_fc - r.tx) % CreditModulus, x.fill})
           capture == x.enabled /\ ~r.busy /\ limit # 0
           load == x.enabled /\ r.busy /\ ~r.ready /\ x.data # << >>
           take == x.enabled /\ r.busy /\ r.ready /\ x.take
           complete == take /\ TakesLast(r)
           q == HwSource(r, x).registers
           n == SourceStep(s, x)
<1>1. /\ SourceCircuit(q, r, x, limit, capture, load, take, complete)
      /\ SourceChoices(s, x, r, limit, capture, load, take, complete)
  BY SourceCircuitIs, SourceChoosesAlike
<1>2. SourceMoves(s, x, n)
  BY SourceStepIs
<1>3. SourceOK(n)
  BY SourceStays
<1> SUFFICES SourceGoes(q, n)
  OBVIOUS
<1> HIDE DEF q, n, limit, capture, load, take, complete
<1>4. /\ r.busy = (s.reserved # 0) /\ r.ready = (s.reserved # 0 /\ s.remaining_load = 0)
      /\ r.payload_count = s.reserved /\ r.loaded = s.reserved - s.remaining_load
      /\ r.word_index = (IF s.header_sent THEN SentWords(s) + 1 ELSE 0)
      /\ r.held = Len(s.payload) /\ r.tx = s.tx_counter /\ r.latest_fc = s.latest_fc
  BY DEF SourceStands
<1>5. /\ s.payload \in Seq(PayloadWords) /\ Len(s.payload) \in Nat
      /\ s.reserved \in Nat /\ s.remaining_load \in Nat
      /\ s.reserved <= MaxPayload /\ s.remaining_load <= s.reserved /\ s.header_sent \in BOOLEAN
      /\ ~s.header_sent => Len(s.payload) = s.reserved - s.remaining_load
      /\ s.header_sent => s.remaining_load = 0 /\ Len(s.payload) >= 1 /\ Len(s.payload) <= s.reserved
      /\ MaxPayload \in Nat
  BY SourceTypes
<1>6. /\ DOMAIN r.words = 0..MaxPayload - 1
      /\ \A i \in 0..MaxPayload - 1 : r.words[i] = StagedWord(s, i)
  BY StagedWords
<1>7. /\ q.busy = (~complete /\ (capture \/ r.busy))
      /\ q.ready = (/\ ~complete /\ ~capture
                    /\ r.ready \/ (load /\ r.loaded + 1 = r.payload_count))
      /\ q.payload_count = IF complete THEN 0 ELSE IF capture THEN Min({limit, MaxPayload})
                           ELSE r.payload_count
      /\ q.loaded = IF complete \/ capture THEN 0 ELSE IF load THEN r.loaded + 1 ELSE r.loaded
      /\ q.word_index = IF complete \/ capture THEN 0 ELSE IF take THEN r.word_index + 1
                        ELSE r.word_index
      /\ q.held = IF complete \/ capture THEN 0 ELSE IF load THEN r.held + 1
                  ELSE IF take /\ r.word_index # 0 THEN r.held - 1 ELSE r.held
      /\ q.tx = IF complete THEN (r.tx + r.payload_count) % CreditModulus ELSE r.tx
      /\ q.latest_fc = IF x.credit = NoCredit THEN r.latest_fc ELSE x.credit
  BY <1>1 DEF SourceCircuit
<1>8. /\ DOMAIN q.words = 0..MaxPayload - 1
      /\ \A i \in 0..MaxPayload - 1 :
           q.words[i] = IF load /\ r.loaded = i THEN x.data[1] ELSE StagedWord(s, i)
  <2>1. q.words = [i \in DOMAIN r.words |-> IF load /\ r.loaded = i THEN x.data[1] ELSE r.words[i]]
    BY <1>1 DEF SourceCircuit
  <2> QED  BY <1>6, <2>1
<1>9. q.latest_fc = n.latest_fc
  BY <1>2, <1>4, <1>7 DEF SourceMoves
<1>10. /\ capture <=> s.reserved = 0 /\ Reserved(s, x) # 0
       /\ capture => Min({limit, MaxPayload}) = Reserved(s, x)
       /\ load <=> s.reserved # 0 /\ Loads(s, x)
       /\ take <=> Sends(s, x)
       /\ complete <=> Sends(s, x) /\ s.header_sent /\ ~(Len(s.payload) > 1)
  BY <1>1 DEF SourceChoices
<1>11. /\ Sends(s, x) => s.reserved # 0 /\ s.remaining_load = 0
       /\ Loads(s, x) => s.remaining_load # 0
  BY DEF Sends, Loads
\* A word that is neither held nor to come means nothing.
<1>12. CASE s.reserved = 0
  <2> DEFINE v == Reserved(s, x)
  <2>1. SourceFields(n, s.payload, v, v, s.header_sent, s.tx_counter)
    BY <1>2, <1>12 DEF SourceMoves
  <2>2. v \in Nat
    <3>1. Reserved(s, x) \in 0..MaxPayload
      BY ReservedIs
    <3> HIDE DEF v
    <3>2. v \in 0..MaxPayload
      BY <3>1 DEF v
    <3> QED  BY <1>5, <3>2
  <2>3. ~s.header_sent /\ Len(s.payload) = 0 /\ s.remaining_load = 0 /\ ~complete /\ ~load /\ ~take
    BY <1>5, <1>10, <1>11, <1>12
  <2> HIDE DEF v
  <2>4. /\ n.payload = s.payload /\ n.reserved = v /\ n.remaining_load = v
        /\ ~n.header_sent /\ n.tx_counter = s.tx_counter
    BY <2>1, <2>3 DEF SourceFields
  <2>5. /\ q.busy = (n.reserved # 0) /\ q.ready = (n.reserved # 0 /\ n.remaining_load = 0)
        /\ q.payload_count = n.reserved
    <3>1. capture <=> v # 0
      BY <1>10, <1>12 DEF v
    <3>2. capture => Min({limit, MaxPayload}) = v
      BY <1>10 DEF v
    <3>3. ~r.busy /\ ~r.ready /\ r.payload_count = 0
      BY <1>4, <1>12
    <3>4. capture \in BOOLEAN
      BY DEF capture
    <3> QED  BY <1>7, <2>3, <2>4, <3>1, <3>2, <3>3, <3>4
  <2>6. q.loaded = 0 /\ n.reserved - n.remaining_load = 0
    BY <1>4, <1>7, <1>12, <2>2, <2>3, <2>4
  <2>7. q.word_index = 0 /\ q.held = Len(n.payload) /\ q.tx = n.tx_counter
    BY <1>4, <1>7, <2>3, <2>4
  <2>8. \A i \in 0..MaxPayload - 1 :
          (IF SentWords(n) <= i /\ i < q.loaded THEN q.words[i] ELSE Token) = StagedWord(n, i)
    <3>1. SentWords(n) = 0 /\ Len(n.payload) = 0
      BY <2>3, <2>4 DEF SentWords
    <3> QED  BY <2>6, <3>1 DEF StagedWord
  <2> QED  BY <1>8, <1>9, <2>4, <2>5, <2>6, <2>7, <2>8 DEF SourceGoes
<1>13. CASE s.reserved # 0 /\ Loads(s, x)
  <2>1. SourceFields(n, s.payload \o x.data, s.reserved, s.remaining_load - 1, s.header_sent,
                     s.tx_counter)
    BY <1>2, <1>13 DEF SourceMoves
  <2>2. PICK w \in PayloadWords : x.data = <<w>>
    BY <1>13 DEF SourceInputOK, Loads
  <2>3. ~complete /\ ~take /\ ~capture /\ load /\ ~s.header_sent /\ s.remaining_load # 0 /\ ~r.ready
    BY <1>4, <1>5, <1>10, <1>11, <1>13
  <2> DEFINE p == s.payload \o x.data
             l == s.reserved - s.remaining_load
  <2>4. /\ Len(p) = l + 1 /\ p[l + 1] = w
        /\ \A i \in 1..l : p[i] = s.payload[i]
        /\ Len(s.payload) = l
    <3>1. Len(s.payload) = l
      BY <1>5, <2>3
    <3>2. p = s.payload \o <<w>> /\ s.payload \in Seq(PayloadWords) /\ w \in PayloadWords
      BY <1>5, <2>2
    <3> HIDE DEF p, l
    <3>3. /\ Len(p) = Len(s.payload) + 1 /\ p[Len(s.payload) + 1] = w
          /\ \A i \in 1..Len(s.payload) : p[i] = s.payload[i]
      BY <3>2, WordLoaded
    <3> QED  BY <3>1, <3>3
  <2>5. l \in Nat /\ s.reserved - (s.remaining_load - 1) = l + 1
        /\ (l + 1 = s.reserved <=> s.remaining_load - 1 = 0)
    BY <1>5, <2>3
  <2>6. /\ n.payload = p /\ n.reserved = s.reserved /\ n.remaining_load = s.remaining_load - 1
        /\ ~n.header_sent /\ n.tx_counter = s.tx_counter
    BY <2>1, <2>3 DEF SourceFields
  <2>7. r.loaded = l /\ r.payload_count = s.reserved /\ r.busy /\ r.word_index = 0 /\ r.held = l
    BY <1>4, <1>13, <2>3, <2>4
  <2> HIDE DEF p, l
  <2>8. /\ q.busy = TRUE /\ q.ready = (l + 1 = s.reserved) /\ q.payload_count = s.reserved
        /\ q.loaded = l + 1 /\ q.word_index = 0 /\ q.held = l + 1 /\ q.tx = s.tx_counter
    BY <1>4, <1>7, <2>3, <2>7
  <2>9. /\ q.busy = (n.reserved # 0) /\ q.ready = (n.reserved # 0 /\ n.remaining_load = 0)
        /\ q.payload_count = n.reserved /\ q.loaded = n.reserved - n.remaining_load
        /\ q.held = Len(n.payload) /\ q.tx = n.tx_counter
    BY <1>13, <2>4, <2>5, <2>6, <2>8
  <2>10. ASSUME NEW i \in 0..MaxPayload - 1
         PROVE  (IF SentWords(n) <= i /\ i < q.loaded THEN q.words[i] ELSE Token) = StagedWord(n, i)
    <3>1. SentWords(n) = 0 /\ SentWords(s) = 0
      BY <2>3, <2>6 DEF SentWords
    <3>2. i \in Nat /\ i - 0 = i /\ i >= 0 /\ 0 <= i
      BY <1>5
    <3>3. q.words[i] = IF l = i THEN w ELSE StagedWord(s, i)
      BY <1>8, <2>2, <2>3, <2>7
    <3>4. StagedWord(n, i) = IF i < l + 1 THEN p[i + 1] ELSE Token
      BY <2>4, <2>6, <3>1, <3>2 DEF StagedWord
    <3>5. i < l => StagedWord(s, i) = s.payload[i + 1]
      BY <2>4, <3>1, <3>2 DEF StagedWord
    <3>6. CASE i < l
      <4>1. i + 1 \in 1..l /\ i < l + 1 /\ i # l
        BY <2>5, <3>2, <3>6
      <4> QED  BY <2>4, <2>8, <3>1, <3>2, <3>3, <3>4, <3>5, <3>6, <4>1
    <3>7. CASE i = l
      BY <2>4, <2>5, <2>8, <3>1, <3>2, <3>3, <3>4, <3>7
    <3>8. CASE ~(i < l + 1)
      BY <2>8, <3>4, <3>8
    <3> QED  BY <2>5, <3>2, <3>6, <3>7, <3>8
  <2> QED  BY <1>8, <1>9, <2>6, <2>8, <2>9, <2>10 DEF SourceGoes
\* Nothing is loaded any more: the words stay, and the head moves.
<1>14. CASE s.reserved # 0 /\ Sends(s, x) /\ s.header_sent /\ ~(Len(s.payload) > 1)
  <2>1. SourceFields(n, << >>, 0, s.remaining_load, FALSE,
                     (s.tx_counter + s.reserved) % CreditModulus)
    BY <1>2, <1>14 DEF SourceMoves
  <2>2. complete /\ s.remaining_load = 0
    BY <1>10, <1>11, <1>14
  <2>3. /\ n.payload = << >> /\ n.reserved = 0 /\ n.remaining_load = 0
        /\ ~n.header_sent /\ n.tx_counter = (s.tx_counter + s.reserved) % CreditModulus
    BY <2>1, <2>2 DEF SourceFields
  <2>4. /\ q.busy = FALSE /\ q.ready = FALSE /\ q.payload_count = 0 /\ q.loaded = 0
        /\ q.word_index = 0 /\ q.held = 0 /\ q.tx = (s.tx_counter + s.reserved) % CreditModulus
    BY <1>4, <1>7, <2>2
  <2>5. Len(n.payload) = 0 /\ 0 - 0 = 0 /\ SentWords(n) = 0
    BY <2>3 DEF SentWords
  <2>6. \A i \in 0..MaxPayload - 1 :
          (IF SentWords(n) <= i /\ i < q.loaded THEN q.words[i] ELSE Token) = StagedWord(n, i)
    BY <2>4, <2>5 DEF StagedWord
  <2> QED  BY <1>8, <1>9, <2>3, <2>4, <2>5, <2>6 DEF SourceGoes
<1>15. CASE s.reserved # 0 /\ Sends(s, x) /\ ~(s.header_sent /\ ~(Len(s.payload) > 1))
  <2>1. ~complete /\ ~capture /\ ~load /\ take /\ s.remaining_load = 0
    BY <1>10, <1>11, <1>15
  <2>2. r.loaded = s.reserved /\ r.busy /\ r.ready /\ r.payload_count = s.reserved
    <3>1. r.loaded = s.reserved - s.remaining_load
      BY <1>4
    <3>2. r.loaded = s.reserved
      BY <1>5, <2>1, <3>1
    <3>3. r.busy /\ r.ready
      BY <1>4, <1>15, <2>1
    <3> QED  BY <1>4, <3>2, <3>3
  <2>3. /\ q.busy = TRUE /\ q.ready = TRUE /\ q.payload_count = s.reserved
        /\ q.loaded = s.reserved /\ q.word_index = r.word_index + 1 /\ q.tx = s.tx_counter
        /\ q.held = IF r.word_index # 0 THEN r.held - 1 ELSE r.held
    BY <1>4, <1>7, <2>1, <2>2
  <2>4. \A i \in 0..MaxPayload - 1 : q.words[i] = StagedWord(s, i)
    BY <1>8, <2>1
  <2> DEFINE p == s.payload
             l == Len(p)
             d == s.reserved
             u == SentWords(s)
  <2>5. CASE ~s.header_sent
    <3>1. SourceFields(n, p, d, s.remaining_load, TRUE, s.tx_counter)
      BY <1>2, <1>15, <2>5 DEF SourceMoves
    <3>2. n.payload = p /\ n.reserved = d /\ n.remaining_load = 0 /\ n.header_sent = TRUE
          /\ n.tx_counter = s.tx_counter
      BY <2>1, <3>1 DEF SourceFields
    <3>3. l = d /\ u = 0 /\ SentWords(n) = 0 /\ r.word_index = 0
      <4>1. l = d
        BY <1>5, <2>1, <2>5
      <4> QED  BY <1>4, <1>5, <2>5, <3>2, <4>1 DEF SentWords
    <3>4. \A i \in 0..MaxPayload - 1 : StagedWord(n, i) = StagedWord(s, i)
      BY <3>2, <3>3 DEF StagedWord
    <3>5. \A i \in 0..MaxPayload - 1 : i \in Nat /\ (i < d \/ StagedWord(s, i) = Token)
      BY <1>5, <3>3 DEF StagedWord
    <3> HIDE DEF p, l, d, u
    <3>6. \A i \in 0..MaxPayload - 1 :
            (IF SentWords(n) <= i /\ i < q.loaded THEN q.words[i] ELSE Token) = StagedWord(n, i)
      BY <2>3, <2>4, <3>3, <3>4, <3>5 DEF d
    <3>7. q.word_index = SentWords(n) + 1 /\ q.held = Len(n.payload)
          /\ q.loaded = n.reserved - n.remaining_load
      BY <1>4, <1>5, <2>3, <3>2, <3>3 DEF p, l, d
    <3> QED  BY <1>8, <1>9, <1>15, <2>3, <3>2, <3>6, <3>7 DEF SourceGoes, d
  <2>6. CASE s.header_sent
    <3>1. SourceFields(n, Tail(p), d, s.remaining_load, s.header_sent, s.tx_counter)
      BY <1>2, <1>15, <2>6 DEF SourceMoves
    <3>2. n.payload = Tail(p) /\ n.reserved = d /\ n.remaining_load = 0 /\ n.header_sent
          /\ n.header_sent = s.header_sent /\ n.tx_counter = s.tx_counter
      BY <2>1, <2>6, <3>1 DEF SourceFields
    <3>3. l > 1 /\ l \in Nat /\ l <= d /\ d \in Nat
      BY <1>5, <1>15, <2>6
    <3>4. /\ Len(Tail(p)) = l - 1 /\ \A i \in 1..l - 1 : Tail(p)[i] = p[i + 1]
      <4>1. p \in Seq(PayloadWords) /\ p # << >>
        BY <1>5, <3>3
      <4> QED  BY <4>1
    <3>5. u = d - l /\ r.word_index = u + 1
      BY <1>4, <2>6 DEF SentWords
    <3>6. SentWords(n) = d - (l - 1)
      BY <3>2, <3>4 DEF SentWords
    <3>7. ASSUME NEW i \in 0..MaxPayload - 1
          PROVE  (IF SentWords(n) <= i /\ i < q.loaded THEN q.words[i] ELSE Token)
                 = StagedWord(n, i)
      <4>1. i \in Nat
        BY <1>5
      <4>2. StagedWord(n, i) = IF i >= SentWords(n) /\ i - SentWords(n) < l - 1
                               THEN Tail(p)[i - SentWords(n) + 1] ELSE Token
        BY <3>2, <3>4 DEF StagedWord
      <4>3. StagedWord(s, i) = IF i >= u /\ i - u < l THEN p[i - u + 1] ELSE Token
        BY DEF StagedWord
      <4>4. q.words[i] = StagedWord(s, i) /\ q.loaded = d
        BY <2>3, <2>4
      <4> DEFINE z == SentWords(n)
      <4> HIDE DEF p, l, d, u, z
      <4>5. z = d - (l - 1) /\ z = u + 1 /\ u = d - l /\ u \in Nat
        BY <3>3, <3>5, <3>6 DEF z
      <4>6. CASE z <= i /\ i < d
        <5>1. i >= u /\ i - u < l /\ i >= z /\ i - z < l - 1
          BY <3>3, <4>1, <4>5, <4>6
        <5>2. i - z + 1 \in 1..l - 1 /\ (i - z + 1) + 1 = i - u + 1
          BY <3>3, <4>1, <4>5, <4>6
        <5>3. Tail(p)[i - z + 1] = p[(i - z + 1) + 1]
          BY <3>4, <5>2
        <5>4. StagedWord(n, i) = Tail(p)[i - z + 1]
          BY <4>2, <5>1 DEF z
        <5>5. StagedWord(s, i) = p[i - u + 1]
          BY <4>3, <5>1
        <5> QED  BY <4>4, <4>6, <5>2, <5>3, <5>4, <5>5 DEF z
      <4>7. CASE ~(z <= i /\ i < d)
        <5>1. ~(i >= z /\ i - z < l - 1)
          BY <3>3, <4>1, <4>5, <4>7
        <5> QED  BY <4>2, <4>4, <4>7, <5>1 DEF z
      <4> QED  BY <4>6, <4>7
    <3>8. q.word_index = SentWords(n) + 1 /\ q.held = Len(n.payload)
          /\ q.loaded = n.reserved - n.remaining_load
      <4>1. r.word_index # 0 /\ r.held = l
        BY <1>4, <3>3, <3>5
      <4>2. q.held = l - 1 /\ q.word_index = u + 1 + 1 /\ q.loaded = d
        BY <2>3, <3>5, <4>1
      <4> HIDE DEF p, l, d, u
      <4> QED  BY <3>2, <3>3, <3>4, <3>5, <3>6, <4>2
    <3> QED  BY <1>8, <1>9, <1>15, <2>3, <3>2, <3>7, <3>8 DEF SourceGoes
  <2> QED  BY <1>5, <2>5, <2>6
<1>16. CASE s.reserved # 0 /\ ~Loads(s, x) /\ ~Sends(s, x)
  <2>1. SourceFields(n, s.payload, s.reserved, s.remaining_load, s.header_sent, s.tx_counter)
    BY <1>2, <1>16 DEF SourceMoves
  <2>2. ~complete /\ ~capture /\ ~load /\ ~take
    BY <1>10, <1>16
  <2>3. /\ n.payload = s.payload /\ n.reserved = s.reserved
        /\ n.remaining_load = s.remaining_load /\ n.header_sent = s.header_sent
        /\ n.tx_counter = s.tx_counter
    BY <2>1 DEF SourceFields
  <2>4. /\ q.busy = r.busy /\ q.ready = r.ready /\ q.payload_count = r.payload_count
        /\ q.loaded = r.loaded /\ q.word_index = r.word_index /\ q.held = r.held /\ q.tx = r.tx
    BY <1>4, <1>7, <2>2
  <2>5. SentWords(n) = SentWords(s)
    BY <2>3 DEF SentWords
  <2>6. ASSUME NEW i \in 0..MaxPayload - 1
        PROVE  (IF SentWords(n) <= i /\ i < q.loaded THEN q.words[i] ELSE Token)
               = StagedWord(n, i)
    <3> DEFINE u == SentWords(s)
               l == Len(s.payload)
    <3>1. StagedWord(n, i) = StagedWord(s, i) /\ q.words[i] = StagedWord(s, i)
      BY <1>8, <2>2, <2>3, <2>5 DEF StagedWord
    <3>2. q.loaded = u + l /\ l \in Nat /\ u \in Nat /\ i \in Nat
      <4>1. i \in Nat
        BY <1>5
      <4>2. q.loaded = s.reserved - s.remaining_load
        BY <1>4, <2>4
      <4>3. CASE s.header_sent
        BY <1>5, <4>1, <4>2, <4>3 DEF SentWords
      <4>4. CASE ~s.header_sent
        BY <1>5, <4>1, <4>2, <4>4 DEF SentWords
      <4> QED  BY <1>5, <4>3, <4>4
    <3>3. StagedWord(s, i) = IF i >= u /\ i - u < l THEN s.payload[i - u + 1] ELSE Token
      BY DEF StagedWord
    <3> HIDE DEF u, l
    <3>4. u <= i /\ i < q.loaded <=> i >= u /\ i - u < l
      BY <3>2
    <3> QED  BY <2>5, <3>1, <3>3, <3>4 DEF u
  <2> QED  BY <1>4, <1>8, <1>9, <2>3, <2>4, <2>5, <2>6 DEF SourceGoes
<1> QED  BY <1>12, <1>13, <1>14, <1>15, <1>16

LEMMA SourceRegistersAgree ==
  ASSUME NEW s, SourceOK(s), NEW r, SourceStands(r, s), NEW x, SourceInputOK(x)
  PROVE  SourceMeaning(HwSource(r, x).registers) = SourceRegisters(SourceStep(s, x))
<1>1. CASE x.reset
  <2> DEFINE n == SourceReset
             q == SourceRegisters(n)
  <2>1. HwSource(r, x).registers = q /\ SourceStep(s, x) = n
    BY <1>1 DEF HwSource, SourceStep
  <2>2. SourceOK(n)
    BY SourceStarts
  <2>3. SourceStands(q, n)
    BY SourceRegistersStand
  <2>4. q = [i \in SourceRegisterNames |-> q[i]]
    BY DEF SourceRegisters, SourceRegisterNames
  <2>5. /\ n.reserved = 0 /\ n.remaining_load = 0 /\ ~n.header_sent /\ n.payload = << >>
    BY DEF SourceReset
  <2> HIDE DEF n, q
  <2>6. SourceGoes(q, n)
    <3>1. SentWords(n) = 0 /\ Len(n.payload) = 0
      BY <2>5 DEF SentWords
    <3>2. \A i \in 0..MaxPayload - 1 : StagedWord(n, i) = Token
      BY <3>1 DEF StagedWord
    <3>3. q.loaded = 0
      BY <2>3, <2>5 DEF SourceStands
    <3>4. \A i \in 0..MaxPayload - 1 :
            (IF SentWords(n) <= i /\ i < q.loaded THEN q.words[i] ELSE Token) = StagedWord(n, i)
      BY <3>1, <3>2, <3>3
    <3>5. DOMAIN q.words = 0..MaxPayload - 1
      BY <2>2, <2>3, StagedWords
    <3>6. /\ q.busy = (n.reserved # 0) /\ q.ready = (n.reserved # 0 /\ n.remaining_load = 0)
          /\ q.payload_count = n.reserved /\ q.loaded = n.reserved - n.remaining_load
          /\ q.word_index = (IF n.header_sent THEN SentWords(n) + 1 ELSE 0)
          /\ q.held = Len(n.payload) /\ q.tx = n.tx_counter /\ q.latest_fc = n.latest_fc
      BY <2>3 DEF SourceStands
    <3> QED  BY <3>4, <3>5, <3>6 DEF SourceGoes
  <2> QED  BY <2>1, <2>2, <2>4, <2>6, SourceMeets
<1>2. CASE ~x.reset
  <2> DEFINE n == SourceStep(s, x)
             q == HwSource(r, x).registers
  <2>1. SourceOK(n) /\ SourceGoes(q, n) /\ q = [i \in SourceRegisterNames |-> q[i]]
    BY <1>2, SourceStays, SourceGoesAlike, SourceCircuitNames
  <2> HIDE DEF n, q
  <2>2. SourceMeaning(q) = SourceRegisters(n)
    BY <2>1, SourceMeets
  <2> QED  BY <2>2 DEF n, q
<1> QED  BY <1>1, <1>2

\* The source of the port keeps what it stages within bounds, whatever comes in.
LEMMA SourceAlike == SourceOK(source) => SourceInStep
<1> SUFFICES ASSUME SourceOK(source)
             PROVE  SourceInStep
  OBVIOUS
<1> SUFFICES ASSUME NEW x \in WithReset(SourceInputs)
             PROVE  LET hw == HwSource(SourceRegisters(source), x)
                    IN  /\ hw.signals = SourceSignals(source, x)
                        /\ SourceMeaning(hw.registers) = SourceRegisters(SourceStep(source, x))
  BY DEF SourceInStep
<1>1. SourceInputOK(x)
  BY SourceInputsOK
<1> DEFINE r == SourceRegisters(source)
<1>2. SourceStands(r, source)
  BY SourceRegistersStand
<1> HIDE DEF r
<1>3. HwSource(r, x).signals = SourceSignals(source, x)
  BY <1>1, <1>2, SourceShowsAlike
<1>4. SourceMeaning(HwSource(r, x).registers) = SourceRegisters(SourceStep(source, x))
  BY <1>1, <1>2, SourceRegistersAgree
<1> QED  BY <1>3, <1>4 DEF r

LEMMA SourceContinues == SourceOK(source) /\ SourceEdge => SourceOK(source')
<1> SUFFICES ASSUME SourceOK(source), NEW x \in SourceInputs, source' = SourceStep(source, x)
             PROVE  SourceOK(source')
  BY DEF SourceEdge
<1>1. SourceInputOK(x)
  <2>1. x \in WithReset(SourceInputs)
    BY DEF WithReset
  <2> QED  BY <2>1, SourceInputsOK
<1>2. ~x.reset
  BY DEF SourceInputs
<1> QED  BY <1>1, <1>2, SourceStays

-------------------------------------------------------------------------------
(* The receive path.                                                           *)

\* Nothing has been read of a stream that is not set up.
RxOK(r) ==
  /\ r.remaining \in Nat /\ r.discard \in BOOLEAN /\ r.initialized \in BOOLEAN
  /\ r.reads \in 0..CreditModulus - 1
  /\ ~r.initialized => r.reads = 0

RxInputOK(x) ==
  /\ x.enabled \in BOOLEAN /\ x.stream_reset \in BOOLEAN /\ x.fw_ready \in BOOLEAN
  /\ x.reset \in BOOLEAN
  /\ x.word.kind = "transport" => x.word.arg \in Nat

LEMMA RxWordsOK ==
  ASSUME NEW w \in RxWords
  PROVE  w.kind = "transport" => w.arg \in Nat
BY UartCycleAssumption DEF RxWords, UartWord, NoUartWord

LEMMA RxInputsOK ==
  ASSUME NEW x \in WithReset(RxInputs)
  PROVE  RxInputOK(x)
<1>1. ASSUME NEW y \in RxInputs
      PROVE  RxInputOK(y) /\ RxInputOK([y EXCEPT !.reset = TRUE])
  <2>1. /\ y.enabled \in BOOLEAN /\ y.stream_reset \in BOOLEAN /\ y.fw_ready \in BOOLEAN
        /\ y.reset \in BOOLEAN /\ y.word \in RxWords
    BY DEF RxInputs
  <2>2. y.word.kind = "transport" => y.word.arg \in Nat
    BY <2>1, RxWordsOK
  <2> DEFINE z == [y EXCEPT !.reset = TRUE]
  <2>3. /\ z.enabled = y.enabled /\ z.stream_reset = y.stream_reset /\ z.reset = TRUE
        /\ z.fw_ready = y.fw_ready /\ z.word = y.word
    BY DEF RxInputs
  <2> HIDE DEF z
  <2>4. RxInputOK(y) /\ RxInputOK(z)
    BY <2>1, <2>2, <2>3 DEF RxInputOK
  <2> QED  BY <2>4 DEF z
<1> QED  BY <1>1 DEF WithReset

\* A counter that turns over at most once.
LEMMA CounterModulo ==
  ASSUME NEW n \in 0..2 * CreditModulus - 1
  PROVE  (n % CreditModulus) = (IF n < CreditModulus THEN n ELSE n - CreditModulus)
<1>1. CreditModulus \in Nat \ {0}
  BY UartCycleAssumption
<1> QED  BY <1>1

\* Announcing one word more is adding one word read.
LEMMA OneFurther ==
  ASSUME NEW a \in 1..CreditModulus - 1, NEW b \in 0..CreditModulus - 1
  PROVE  /\ (((a + b) % CreditModulus) + 1) % CreditModulus
            = (a + ((b + 1) % CreditModulus)) % CreditModulus
         /\ (b + 1) % CreditModulus \in 0..CreditModulus - 1
         /\ (a + 0) % CreditModulus = a
<1> DEFINE c == (a + b) % CreditModulus
           d == (b + 1) % CreditModulus
           e == (c + 1) % CreditModulus
           f == (a + d) % CreditModulus
           g == (a + 0) % CreditModulus
<1>1. CreditModulus \in Nat \ {0} /\ a \in 1..CreditModulus - 1 /\ b \in 0..CreditModulus - 1
  BY UartCycleAssumption
<1>2. c = (IF a + b < CreditModulus THEN a + b ELSE a + b - CreditModulus)
  <2>1. a + b \in 0..2 * CreditModulus - 1
    BY <1>1
  <2> QED  BY <1>1, <2>1
<1>3. d = (IF b + 1 < CreditModulus THEN b + 1 ELSE b + 1 - CreditModulus)
  <2>1. b + 1 \in 0..2 * CreditModulus - 1
    BY <1>1
  <2> QED  BY <1>1, <2>1
<1>4. g = a
  <2>1. a + 0 \in 0..2 * CreditModulus - 1
    BY <1>1
  <2>2. g = (IF a + 0 < CreditModulus THEN a + 0 ELSE a + 0 - CreditModulus)
    BY <1>1, <2>1
  <2> HIDE DEF g
  <2> QED  BY <1>1, <2>2
<1> SUFFICES e = f /\ d \in 0..CreditModulus - 1 /\ g = a
  OBVIOUS
<1> HIDE DEF c, d
<1>5. c \in 0..CreditModulus - 1 /\ d \in 0..CreditModulus - 1
  BY <1>1, <1>2, <1>3
<1>6. e = (IF c + 1 < CreditModulus THEN c + 1 ELSE c + 1 - CreditModulus)
  <2>1. c + 1 \in 0..2 * CreditModulus - 1 /\ c \in Int
    BY <1>1, <1>5
  <2> SUFFICES (c + 1) % CreditModulus
               = (IF c + 1 < CreditModulus THEN c + 1 ELSE c + 1 - CreditModulus)
    BY DEF e
  <2> QED  BY <1>1, <2>1
<1>7. f = (IF a + d < CreditModulus THEN a + d ELSE a + d - CreditModulus)
  <2>1. a + d \in 0..2 * CreditModulus - 1 /\ d \in Int
    BY <1>1, <1>5
  <2> SUFFICES (a + d) % CreditModulus
               = (IF a + d < CreditModulus THEN a + d ELSE a + d - CreditModulus)
    BY DEF f
  <2> QED  BY <1>1, <2>1
<1> HIDE DEF e, f
<1>8. e = f
  BY <1>1, <1>2, <1>3, <1>6, <1>7
<1> QED  BY <1>4, <1>5, <1>8

LEMMA RxStarts == RxOK(RxReset)
BY UartCycleAssumption DEF RxOK, RxReset

\* The circuit shows what the path shows.
LEMMA RxShowsAlike ==
  ASSUME NEW s, RxOK(s), NEW x, RxInputOK(x)
  PROVE  HwRx(RxRegisters(s), x).signals = RxSignals(s, x)
<1> DEFINE r == RxRegisters(s)
<1>1. /\ r.remaining = s.remaining /\ r.drop = s.discard /\ r.initialized = s.initialized
      /\ r.rx_credit = (IF s.initialized THEN (UartRxDepth + s.reads) % CreditModulus ELSE 0)
      /\ r.storage = s.fifo
  BY DEF RxRegisters
<1>2. /\ s.discard \in BOOLEAN /\ s.initialized \in BOOLEAN
  BY DEF RxOK
<1>3. /\ x.enabled \in BOOLEAN /\ x.stream_reset \in BOOLEAN /\ x.reset \in BOOLEAN
  BY DEF RxInputOK
<1> HIDE DEF r
<1> SUFFICES HwRx(r, x).signals = RxSignals(s, x)
  BY DEF r
<1> DEFINE z == HwRx(r, x).signals
           y == RxSignals(s, x)
<1>4. CASE x.reset
  BY <1>4 DEF HwRx, RxSignals, RxQuiet
<1>5. CASE ~x.reset
  <2>1. /\ z.fw_valid = y.fw_valid /\ z.fill = y.fill /\ z.initialized = y.initialized
        /\ z.rx_counter = y.rx_counter /\ z.credit_available = y.credit_available
        /\ z.remaining = y.remaining
    BY <1>1, <1>5 DEF HwRx, RxSignals
  <2>2. z.dropping = y.dropping /\ z.header = y.header
    BY <1>1, <1>5 DEF HwRx, RxSignals
  <2>3. z.write = y.write /\ z.discard = y.discard /\ z.done = y.done
    BY <1>1, <1>5 DEF HwRx, RxSignals
  <2>4. z.credit = y.credit /\ z.other = y.other
    BY <1>1, <1>5 DEF HwRx, RxSignals
  <2>5. z.request = y.request /\ z.response = y.response
    BY <1>1, <1>5 DEF HwRx, RxSignals
  <2>6. z.error = y.error
    BY <1>1, <1>5 DEF HwRx, RxSignals
  <2>7. z = [fw_valid |-> z.fw_valid, fill |-> z.fill, initialized |-> z.initialized,
             rx_counter |-> z.rx_counter, credit_available |-> z.credit_available,
             remaining |-> z.remaining, dropping |-> z.dropping, header |-> z.header,
             write |-> z.write, discard |-> z.discard, done |-> z.done, credit |-> z.credit,
             request |-> z.request, response |-> z.response, other |-> z.other,
             error |-> z.error]
    BY DEF HwRx
  <2>8. y = [fw_valid |-> y.fw_valid, fill |-> y.fill, initialized |-> y.initialized,
             rx_counter |-> y.rx_counter, credit_available |-> y.credit_available,
             remaining |-> y.remaining, dropping |-> y.dropping, header |-> y.header,
             write |-> y.write, discard |-> y.discard, done |-> y.done, credit |-> y.credit,
             request |-> y.request, response |-> y.response, other |-> y.other,
             error |-> y.error]
    BY <1>5 DEF RxSignals
  <2> HIDE DEF z, y
  <2>9. z = y
    BY <2>1, <2>2, <2>3, <2>4, <2>5, <2>6, <2>7, <2>8
  <2> QED  BY <2>9 DEF z, y
<1> QED  BY <1>3, <1>4, <1>5

\* What the path does at an edge that is no reset.
RxMoves(n, s, x, y) ==
  /\ n.fifo = IF x.stream_reset \/ ~s.initialized THEN F!Empty
              ELSE F!Step(s.fifo, UartRxDepth, IF y.write THEN <<Token>> ELSE << >>,
                          y.fw_valid /\ x.fw_ready)
  /\ n.remaining = IF s.remaining # 0
                   THEN IF Arrives(x) THEN s.remaining - 1 ELSE s.remaining
                   ELSE IF y.header THEN x.word.arg ELSE 0
  /\ n.initialized = ~x.stream_reset
  /\ n.reads = IF x.stream_reset \/ ~s.initialized THEN 0
               ELSE IF y.fw_valid /\ x.fw_ready THEN (s.reads + 1) % CreditModulus ELSE s.reads

LEMMA RxStepIs ==
  ASSUME NEW s, RxOK(s), NEW x, RxInputOK(x), ~x.reset
  PROVE  /\ RxMoves(RxStep(s, x), s, x, RxSignals(s, x))
         /\ RxStep(s, x).discard = Framing(s, x, RxSignals(s, x)).discard
<1> DEFINE n == RxStep(s, x)
           y == RxSignals(s, x)
           framing == Framing(s, x, y)
<1>1. /\ s.initialized \in BOOLEAN /\ x.stream_reset \in BOOLEAN
  BY DEF RxOK, RxInputOK
<1> HIDE DEF y
<1>2. n.remaining = framing.remaining /\ n.discard = framing.discard
      /\ n.initialized = ~x.stream_reset
  BY DEF RxStep, y
<1>3. framing.remaining = IF s.remaining # 0
                          THEN IF Arrives(x) THEN s.remaining - 1 ELSE s.remaining
                          ELSE IF y.header THEN x.word.arg ELSE 0
  BY DEF Framing
<1>4. n.fifo = IF x.stream_reset \/ ~s.initialized THEN F!Empty
               ELSE F!Step(s.fifo, UartRxDepth, IF y.write THEN <<Token>> ELSE << >>,
                           y.fw_valid /\ x.fw_ready)
  BY DEF RxStep, y
<1>5. n.reads = IF x.stream_reset \/ ~s.initialized THEN 0
                ELSE IF y.fw_valid /\ x.fw_ready THEN (s.reads + 1) % CreditModulus ELSE s.reads
  <2>1. n.reads = CASE x.stream_reset \/ ~s.initialized -> 0
                    [] ~x.stream_reset /\ s.initialized /\ y.fw_valid /\ x.fw_ready ->
                         (s.reads + 1) % CreditModulus
                    [] OTHER -> s.reads
    BY DEF RxStep, y
  <2> HIDE DEF n
  <2> QED  BY <1>1, <2>1
<1> HIDE DEF n, framing
<1>6. RxMoves(n, s, x, y)
  BY <1>2, <1>3, <1>4, <1>5 DEF RxMoves
<1> QED  BY <1>2, <1>6 DEF n, y, framing

LEMMA RxStays ==
  ASSUME NEW s, RxOK(s), NEW x, RxInputOK(x), ~x.reset
  PROVE  RxOK(RxStep(s, x))
<1> DEFINE n == RxStep(s, x)
           y == RxSignals(s, x)
<1>1. RxMoves(n, s, x, y) /\ n.discard = Framing(s, x, y).discard
  BY RxStepIs
<1>2. y.header = (Arrives(x) /\ s.remaining = 0 /\ x.word.kind = "transport")
  BY DEF RxSignals
<1>3. /\ s.remaining \in Nat /\ s.discard \in BOOLEAN /\ s.initialized \in BOOLEAN
      /\ s.reads \in 0..CreditModulus - 1 /\ s.reads \in Nat /\ 0 \in 0..CreditModulus - 1
  BY UartCycleAssumption DEF RxOK
<1>4. /\ x.stream_reset \in BOOLEAN
      /\ x.word.kind = "transport" => x.word.arg \in Nat
  BY DEF RxInputOK
<1>5. Framing(s, x, y).discard \in BOOLEAN
  <2>1. CASE s.remaining # 0
    BY <2>1 DEF Framing
  <2>2. CASE s.remaining = 0 /\ y.header
    BY <2>2 DEF Framing
  <2>3. CASE s.remaining = 0 /\ ~y.header
    BY <1>3, <2>3 DEF Framing
  <2> QED  BY <1>3, <2>1, <2>2, <2>3
<1> SUFFICES RxOK(n)
  OBVIOUS
<1> HIDE DEF n, y
<1>6. n.remaining \in Nat
  <2>1. n.remaining = IF s.remaining # 0
                      THEN IF Arrives(x) THEN s.remaining - 1 ELSE s.remaining
                      ELSE IF y.header THEN x.word.arg ELSE 0
    BY <1>1 DEF RxMoves
  <2>2. y.header => x.word.arg \in Nat
    BY <1>2, <1>4
  <2> HIDE <1>1, <1>2
  <2>3. CASE s.remaining # 0 /\ Arrives(x)
    BY <1>3, <2>1, <2>3
  <2>4. CASE ~(s.remaining # 0 /\ Arrives(x))
    BY <1>3, <2>1, <2>2, <2>4
  <2> QED  BY <2>3, <2>4
<1>7. n.initialized \in BOOLEAN
  BY <1>1 DEF RxMoves
<1>8. n.reads \in 0..CreditModulus - 1 /\ (~n.initialized => n.reads = 0)
  <2>1. n.reads = IF x.stream_reset \/ ~s.initialized THEN 0
                  ELSE IF y.fw_valid /\ x.fw_ready THEN (s.reads + 1) % CreditModulus ELSE s.reads
    BY <1>1 DEF RxMoves
  <2>2. n.initialized = ~x.stream_reset
    BY <1>1 DEF RxMoves
  <2>3. (s.reads + 1) % CreditModulus \in 0..CreditModulus - 1
    BY <1>3, UartCycleAssumption, OneFurther
  <2> QED  BY <1>3, <1>4, <2>1, <2>2, <2>3
<1> QED  BY <1>1, <1>5, <1>6, <1>7, <1>8 DEF RxOK

\* The circuit goes where the path goes.
LEMMA RxGoesAlike ==
  ASSUME NEW s, RxOK(s), NEW x, RxInputOK(x)
  PROVE  HwRx(RxRegisters(s), x).registers = RxRegisters(RxStep(s, x))
<1> DEFINE r == RxRegisters(s)
<1>1. /\ r.remaining = s.remaining /\ r.drop = s.discard /\ r.initialized = s.initialized
      /\ r.rx_credit = (IF s.initialized THEN (UartRxDepth + s.reads) % CreditModulus ELSE 0)
      /\ r.storage = s.fifo
  BY DEF RxRegisters
<1>2. /\ s.discard \in BOOLEAN /\ s.initialized \in BOOLEAN /\ s.remaining \in Nat
      /\ ~s.initialized => s.reads = 0
      /\ s.reads \in 0..CreditModulus - 1
  BY DEF RxOK
<1>3. /\ x.enabled \in BOOLEAN /\ x.stream_reset \in BOOLEAN /\ x.reset \in BOOLEAN
  BY DEF RxInputOK
<1> HIDE DEF r
<1> SUFFICES HwRx(r, x).registers = RxRegisters(RxStep(s, x))
  BY DEF r
<1> DEFINE q == HwRx(r, x).registers
           n == RxStep(s, x)
           m == RxRegisters(n)
           y == RxSignals(s, x)
<1>4. CASE x.reset
  BY <1>4 DEF HwRx, RxStep
<1>5. CASE ~x.reset
  <2>1. RxMoves(n, s, x, y) /\ n.discard = Framing(s, x, y).discard
    BY <1>5, RxStepIs
  <2> DEFINE running == ~x.stream_reset /\ s.initialized
             here == Arrives(x)
             header == here /\ s.remaining = 0 /\ x.word.kind = "transport"
             payload == here /\ s.remaining # 0
             drop_now == s.discard \/ ~running \/ ~x.enabled
             space == F!Ready(s.fifo, UartRxDepth)
             admit_error == header /\ x.word.stream = 0 /\ running /\ x.enabled
                              /\ F!Count(s.fifo) + x.word.arg > UartRxDepth
             write == payload /\ ~drop_now /\ space
             write_error == payload /\ ~drop_now /\ ~space
             done == payload /\ s.remaining = 1
             read == running /\ F!Valid(s.fifo) /\ x.fw_ready
  <2>2. /\ y.header = header /\ y.write = write
        /\ (y.fw_valid /\ x.fw_ready) = read
        /\ y.initialized = running
    BY <1>3, <1>5 DEF RxSignals
  <2>3. /\ s.remaining # 0 => y.error = write_error /\ y.dropping = drop_now
        /\ s.remaining = 0 => y.error = admit_error
    BY <1>2, <1>3, <1>5 DEF RxSignals
  <2>4. q.remaining = CASE header -> x.word.arg
                        [] ~header /\ payload -> s.remaining - 1
                        [] OTHER -> s.remaining
    BY <1>1, <1>5 DEF HwRx
  <2>5. q.drop = IF header THEN ~running \/ ~x.enabled \/ x.word.stream # 0 \/ admit_error
                 ELSE ~done /\ (s.discard \/ (s.remaining # 0 /\ (drop_now \/ write_error)))
    BY <1>1, <1>5 DEF HwRx
  <2>6. q.initialized = ~x.stream_reset
    BY <1>1, <1>5 DEF HwRx
  <2>7. q.rx_credit = CASE x.stream_reset -> 0
                        [] ~x.stream_reset /\ ~s.initialized -> UartRxDepth
                        [] OTHER -> IF read THEN (r.rx_credit + 1) % CreditModulus ELSE r.rx_credit
    BY <1>1, <1>5 DEF HwRx
  <2>8. q.storage = IF ~running THEN F!Empty
                    ELSE F!Step(s.fifo, UartRxDepth, IF write THEN <<Token>> ELSE << >>, read)
    BY <1>1, <1>5 DEF HwRx
  <2>9. q = [remaining |-> q.remaining, drop |-> q.drop, initialized |-> q.initialized,
             rx_credit |-> q.rx_credit, storage |-> q.storage]
    BY <1>5 DEF HwRx
  <2>10. m = [remaining |-> n.remaining, drop |-> n.discard, initialized |-> n.initialized,
              rx_credit |-> IF n.initialized THEN (UartRxDepth + n.reads) % CreditModulus ELSE 0,
              storage |-> n.fifo]
    BY DEF RxRegisters
  <2> HIDE DEF q, n, m, y
  <2>11. q.remaining = n.remaining
    <3>1. n.remaining = IF s.remaining # 0
                        THEN IF Arrives(x) THEN s.remaining - 1 ELSE s.remaining
                        ELSE IF y.header THEN x.word.arg ELSE 0
      BY <2>1 DEF RxMoves
    <3> QED  BY <1>2, <2>2, <2>4, <3>1
  <2>12. q.drop = n.discard
    <3>1. CASE s.remaining # 0
      <4>1. n.discard = (/\ (IF here THEN s.remaining - 1 ELSE s.remaining) # 0
                         /\ s.discard \/ y.dropping \/ y.error)
        BY <2>1, <3>1 DEF Framing
      <4>2. (IF here THEN s.remaining - 1 ELSE s.remaining) # 0 <=> ~done
        BY <1>2, <3>1
      <4> HIDE DEF done
      <4>3. q.drop = (~done /\ (s.discard \/ drop_now \/ write_error))
        BY <2>5, <3>1
      <4>4. y.error = write_error /\ y.dropping = drop_now
        BY <2>3, <3>1
      <4> QED  BY <4>1, <4>2, <4>3, <4>4
    <3>2. CASE s.remaining = 0 /\ header
      <4>1. n.discard = (~y.initialized \/ ~x.enabled \/ x.word.stream # 0 \/ y.error)
        BY <2>1, <2>2, <3>2 DEF Framing
      <4>2. y.error = admit_error
        BY <2>3, <3>2
      <4> QED  BY <2>2, <2>5, <3>2, <4>1, <4>2
    <3>3. CASE s.remaining = 0 /\ ~header
      <4>1. n.discard = s.discard
        BY <2>1, <2>2, <3>3 DEF Framing
      <4>2. q.drop = s.discard
        BY <1>2, <2>5, <3>3
      <4> QED  BY <4>1, <4>2
    <3> QED  BY <1>2, <3>1, <3>2, <3>3
  <2>13. q.initialized = n.initialized
    BY <2>1, <2>6 DEF RxMoves
  <2>14. q.storage = n.fifo
    <3>1. n.fifo = IF x.stream_reset \/ ~s.initialized THEN F!Empty
                   ELSE F!Step(s.fifo, UartRxDepth, IF y.write THEN <<Token>> ELSE << >>,
                               y.fw_valid /\ x.fw_ready)
      BY <2>1 DEF RxMoves
    <3> HIDE DEF write, read
    <3> QED  BY <2>2, <2>8, <3>1
  <2>15. q.rx_credit = IF n.initialized THEN (UartRxDepth + n.reads) % CreditModulus ELSE 0
    <3> HIDE DEF read
    <3>1. n.reads = IF x.stream_reset \/ ~s.initialized THEN 0
                    ELSE IF read THEN (s.reads + 1) % CreditModulus ELSE s.reads
      BY <2>1, <2>2 DEF RxMoves
    <3>2. n.initialized = ~x.stream_reset
      BY <2>1 DEF RxMoves
    <3>3. /\ (((UartRxDepth + s.reads) % CreditModulus) + 1) % CreditModulus
             = (UartRxDepth + ((s.reads + 1) % CreditModulus)) % CreditModulus
          /\ (UartRxDepth + 0) % CreditModulus = UartRxDepth
      BY <1>2, OneFurther, UartCycleAssumption
    <3>4. CASE x.stream_reset
      BY <2>7, <3>2, <3>4
    <3>5. CASE ~x.stream_reset /\ ~s.initialized
      BY <2>7, <3>1, <3>2, <3>3, <3>5
    <3>6. CASE ~x.stream_reset /\ s.initialized /\ read
      BY <1>1, <2>7, <3>1, <3>2, <3>3, <3>6
    <3>7. CASE ~x.stream_reset /\ s.initialized /\ ~read
      BY <1>1, <2>7, <3>1, <3>2, <3>7
    <3> QED  BY <1>2, <1>3, <3>4, <3>5, <3>6, <3>7
  <2>16. q = m
    BY <2>9, <2>10, <2>11, <2>12, <2>13, <2>14, <2>15
  <2> QED  BY <2>16 DEF q, m, n
<1> QED  BY <1>3, <1>4, <1>5

LEMMA RxAlike == RxOK(rxpath) => RxInStep
<1> SUFFICES ASSUME RxOK(rxpath), NEW x \in WithReset(RxInputs)
             PROVE  HwRx(RxRegisters(rxpath), x)
                    = [signals |-> RxSignals(rxpath, x),
                       registers |-> RxRegisters(RxStep(rxpath, x))]
  BY DEF RxInStep
<1> DEFINE hw == HwRx(RxRegisters(rxpath), x)
<1>1. RxInputOK(x)
  BY RxInputsOK
<1>2. hw.signals = RxSignals(rxpath, x) /\ hw.registers = RxRegisters(RxStep(rxpath, x))
  BY <1>1, RxShowsAlike, RxGoesAlike
<1>3. hw = [signals |-> hw.signals, registers |-> hw.registers]
  BY DEF HwRx
<1> HIDE DEF hw
<1> QED  BY <1>2, <1>3 DEF hw

LEMMA RxContinues == RxOK(rxpath) /\ RxEdge => RxOK(rxpath')
<1> SUFFICES ASSUME RxOK(rxpath), NEW x \in RxInputs, rxpath' = RxStep(rxpath, x)
             PROVE  RxOK(rxpath')
  BY DEF RxEdge
<1>1. RxInputOK(x)
  <2>1. x \in WithReset(RxInputs)
    BY DEF WithReset
  <2> QED  BY <2>1, RxInputsOK
<1>2. ~x.reset
  BY DEF RxInputs
<1> QED  BY <1>1, <1>2, RxStays

-------------------------------------------------------------------------------
(* The control of stream resets.                                               *)

SequencerNames == {"held", "phase", "noops", "all_streams", "responses", "left", "retries"}

SequencerOK(s) ==
  /\ DOMAIN s = SequencerNames /\ s.held = FALSE /\ s.phase \in R!Phases
  /\ s.noops \in Int /\ s.all_streams \in BOOLEAN /\ s.responses \in Seq(BOOLEAN)
  /\ s.left \in Int /\ s.retries \in Int

\* What a sequencer keeps, field by field.
SequencerIs(s, phase, noops, all, responses, left, retries) ==
  /\ SequencerOK(s)
  /\ s.phase = phase /\ s.noops = noops /\ s.all_streams = all /\ s.responses = responses
  /\ s.left = left /\ s.retries = retries

LEMMA RunsOut ==
  ASSUME NEW s, SequencerOK(s)
  PROVE  SequencerIs(R!StartRunout(s), "noops", NoOps, s.all_streams, s.responses, 0, s.retries)
BY UartCycleAssumption DEF R!StartRunout, R!Phases, SequencerNames, SequencerOK, SequencerIs

LEMMA Requests ==
  ASSUME NEW s, SequencerOK(s), NEW all \in BOOLEAN
  PROVE  SequencerIs(R!Request(s, all), "noops", NoOps, all, s.responses, 0, s.retries)
<1> DEFINE t == [s EXCEPT !.all_streams = all]
<1>1. SequencerOK(t) /\ t.all_streams = all /\ t.responses = s.responses /\ t.retries = s.retries
  BY DEF SequencerNames, SequencerOK
<1> HIDE DEF t
<1>2. SequencerIs(R!StartRunout(t), "noops", NoOps, all, s.responses, 0, s.retries)
  BY <1>1, RunsOut
<1> QED  BY <1>2 DEF t, R!Request

LEMMA TimePasses ==
  ASSUME NEW s, SequencerOK(s)
  PROVE  LET t == R!Advance(s, 1)
         IN  /\ s.phase # "wait" => t = s
             /\ s.phase = "wait" /\ 1 < s.left =>
                  SequencerIs(t, "wait", s.noops, s.all_streams, s.responses, s.left - 1, s.retries)
             /\ s.phase = "wait" /\ ~(1 < s.left) =>
                  SequencerIs(t, "noops", NoOps, s.all_streams, s.responses, 0, s.retries + 1)
<1> DEFINE t == R!Advance(s, 1)
<1>1. CASE s.phase # "wait"
  BY <1>1 DEF R!Advance
<1>2. CASE s.phase = "wait" /\ 1 < s.left
  BY <1>2 DEF R!Advance, SequencerNames, SequencerOK, SequencerIs
<1>3. CASE s.phase = "wait" /\ ~(1 < s.left)
  <2> DEFINE u == [s EXCEPT !.retries = @ + 1]
  <2>1. t = R!StartRunout(u)
    BY <1>3 DEF R!Advance
  <2>2. /\ SequencerOK(u) /\ u.all_streams = s.all_streams /\ u.responses = s.responses
        /\ u.retries = s.retries + 1
    BY DEF SequencerNames, SequencerOK
  <2> HIDE DEF u, t
  <2>3. SequencerIs(R!StartRunout(u), "noops", NoOps, s.all_streams, s.responses, 0, s.retries + 1)
    BY <2>2, RunsOut
  <2> QED  BY <1>3, <2>1, <2>3 DEF t
<1> QED  BY <1>1, <1>2, <1>3

LEMMA AnswerCounts ==
  ASSUME NEW s, SequencerOK(s)
  PROVE  LET t == R!ReceiveResponse(s, R!SUCCESS, 0, FALSE)
         IN  /\ s.phase # "wait" => t = s
             /\ s.phase = "wait" =>
                  SequencerIs(t, "normal", s.noops, s.all_streams, s.responses, 0, s.retries)
BY DEF R!ReceiveResponse, R!SUCCESS, R!Phases, SequencerNames, SequencerOK, SequencerIs

LEMMA RequestIsOwed ==
  ASSUME NEW s, SequencerOK(s), NEW all \in BOOLEAN
  PROVE  SequencerIs(R!ReceiveRequest(s, 0, all), s.phase, s.noops, s.all_streams,
                     Append(s.responses, all), s.left, s.retries)
BY DEF R!ReceiveRequest, SequencerNames, SequencerOK, SequencerIs

LEMMA OfferIs ==
  ASSUME NEW s, SequencerOK(s)
  PROVE  R!Offer(s) = IF s.phase = "noops" THEN "noop"
                      ELSE IF s.phase = "request" THEN "request"
                      ELSE IF s.responses = << >> THEN "none" ELSE "response"
BY DEF R!Offer, R!Phases, SequencerNames, SequencerOK

LEMMA Serves ==
  ASSUME NEW s, SequencerOK(s)
  PROVE  LET t == R!Service(s)
         IN  /\ R!Offer(s) = "noop" =>
                  SequencerIs(t, IF s.noops = 1 THEN "request" ELSE s.phase, s.noops - 1,
                              s.all_streams, s.responses, s.left, s.retries)
             /\ R!Offer(s) = "request" =>
                  SequencerIs(t, "wait", s.noops, s.all_streams, s.responses, Timeout, s.retries)
             /\ R!Offer(s) = "response" =>
                  SequencerIs(t, s.phase, s.noops, s.all_streams, Tail(s.responses), s.left,
                              s.retries)
<1> DEFINE t == R!Service(s)
<1>1. CASE R!Offer(s) = "noop"
  <2>1. t = [s EXCEPT !.noops = @ - 1, !.phase = IF s.noops = 1 THEN "request" ELSE @]
    BY <1>1 DEF R!Service
  <2> HIDE DEF t
  <2>2. SequencerIs(t, IF s.noops = 1 THEN "request" ELSE s.phase, s.noops - 1,
                    s.all_streams, s.responses, s.left, s.retries)
    BY <2>1 DEF R!Phases, SequencerNames, SequencerOK, SequencerIs
  <2> QED  BY <1>1, <2>2 DEF t
<1>2. CASE R!Offer(s) = "request"
  <2>1. t = [s EXCEPT !.phase = "wait", !.left = Timeout]
    BY <1>2 DEF R!Service
  <2> HIDE DEF t
  <2>2. SequencerIs(t, "wait", s.noops, s.all_streams, s.responses, Timeout, s.retries)
    BY <2>1, UartCycleAssumption DEF R!Phases, SequencerNames, SequencerOK, SequencerIs
  <2> QED  BY <1>2, <2>2 DEF t
<1>3. CASE R!Offer(s) = "response"
  <2>1. t = [s EXCEPT !.responses = Tail(@)]
    BY <1>3 DEF R!Service
  <2>2. s.responses # << >>
    BY <1>3, OfferIs
  <2>3. Tail(s.responses) \in Seq(BOOLEAN)
    BY <2>2 DEF SequencerNames, SequencerOK
  <2> HIDE DEF t
  <2>4. SequencerIs(t, s.phase, s.noops, s.all_streams, Tail(s.responses), s.left, s.retries)
    BY <2>1, <2>3 DEF SequencerNames, SequencerOK, SequencerIs
  <2> QED  BY <1>3, <2>4 DEF t
<1> QED  BY <1>1, <1>2, <1>3

\* What is owed is what the sequencer holds; a run-out counts down while the words
\* sent count up; a wait has not yet come to its end.
ControlOK(c) ==
  /\ DOMAIN c = {"seq", "owed", "noops_sent", "fault"}
  /\ SequencerOK(c.seq) /\ c.seq.retries = 0
  /\ c.owed = Len(c.seq.responses) /\ c.owed <= ResponseDepth
  /\ c.fault \in BOOLEAN /\ c.noops_sent \in Int
  /\ c.seq.phase = "noops" => c.seq.noops >= 1 /\ c.noops_sent + c.seq.noops = NoOps
  /\ c.seq.phase = "wait" => c.seq.left >= 1

ControlInputOK(x) ==
  /\ x.local \in BOOLEAN /\ x.local_all \in BOOLEAN
  /\ x.request \in BOOLEAN /\ x.request_all \in BOOLEAN
  /\ x.response \in BOOLEAN /\ x.take \in BOOLEAN /\ x.reset \in BOOLEAN

LEMMA ControlInputsOK ==
  ASSUME NEW x \in WithReset(ControlInputs)
  PROVE  ControlInputOK(x)
<1>1. ASSUME NEW y \in ControlInputs
      PROVE  ControlInputOK(y) /\ ControlInputOK([y EXCEPT !.reset = TRUE])
  <2>1. /\ y.local \in BOOLEAN /\ y.local_all \in BOOLEAN
        /\ y.request \in BOOLEAN /\ y.request_all \in BOOLEAN
        /\ y.response \in BOOLEAN /\ y.take \in BOOLEAN /\ y.reset \in BOOLEAN
        /\ DOMAIN y = {"local", "local_all", "request", "request_all", "response", "status",
                       "take", "reset"}
    BY DEF ControlInputs
  <2> DEFINE z == [y EXCEPT !.reset = TRUE]
  <2>2. /\ z.local = y.local /\ z.local_all = y.local_all /\ z.request = y.request
        /\ z.request_all = y.request_all /\ z.response = y.response /\ z.take = y.take
        /\ z.reset = TRUE
    BY <2>1
  <2> HIDE DEF z
  <2>3. ControlInputOK(y) /\ ControlInputOK(z)
    BY <2>1, <2>2 DEF ControlInputOK
  <2> QED  BY <2>3 DEF z
<1> QED  BY <1>1 DEF WithReset

\* What happens at an edge.
Begins(c, x) == x.local /\ c.seq.phase = "normal"
Succeeds(c, x) == x.response /\ x.status = 0 /\ c.seq.phase = "wait"
RunsLate(c, x) == c.seq.phase = "wait" /\ c.seq.left = 1 /\ ~Succeeds(c, x)
Stands(c, x) == ~Begins(c, x) /\ ~RunsLate(c, x) /\ R!Offer(c.seq) # "none"
Gone(c, x, kind) == Stands(c, x) /\ x.take /\ R!Offer(c.seq) = kind
Mistaken(c, x) == \/ x.request /\ c.owed = ResponseDepth /\ ~Gone(c, x, "response")
                  \/ x.take /\ ~Stands(c, x)

LEMMA AnsweredIs ==
  ASSUME NEW c, ControlOK(c), NEW x
  PROVE  /\ ~Succeeds(c, x) => Answered(c, x) = c.seq
         /\ Succeeds(c, x) =>
              SequencerIs(Answered(c, x), "normal", c.seq.noops, c.seq.all_streams,
                          c.seq.responses, 0, c.seq.retries)
<1> DEFINE t == R!ReceiveResponse(c.seq, R!SUCCESS, 0, FALSE)
<1>1. Answered(c, x) = IF x.response /\ x.status = 0 THEN t ELSE c.seq
  BY DEF Answered, R!SUCCESS
<1>2. SequencerOK(c.seq)
  BY DEF ControlOK
<1>3. /\ c.seq.phase # "wait" => t = c.seq
      /\ c.seq.phase = "wait" =>
           SequencerIs(t, "normal", c.seq.noops, c.seq.all_streams, c.seq.responses, 0, c.seq.retries)
  BY <1>2, AnswerCounts
<1> HIDE DEF t
<1> QED  BY <1>1, <1>3 DEF Succeeds

LEMMA TimesOutIs ==
  ASSUME NEW c, ControlOK(c), NEW x
  PROVE  TimesOut(c, x) <=> RunsLate(c, x)
<1> DEFINE a == Answered(c, x)
           t == R!Advance(a, 1)
<1>1. SequencerOK(c.seq) /\ c.seq.retries \in Int /\ (c.seq.phase = "wait" => c.seq.left >= 1)
      /\ c.seq.left \in Int
  BY DEF ControlOK, SequencerOK
<1>2. TimesOut(c, x) <=> t.retries # c.seq.retries
  BY DEF TimesOut
<1>3. CASE Succeeds(c, x)
  <2>1. SequencerOK(a) /\ a.phase = "normal" /\ a.retries = c.seq.retries
    BY <1>3, AnsweredIs DEF SequencerIs
  <2> HIDE DEF a
  <2>2. t = a
    BY <2>1, TimePasses
  <2> QED  BY <1>2, <1>3, <2>1, <2>2 DEF RunsLate
<1>4. CASE ~Succeeds(c, x)
  <2>1. a = c.seq
    BY <1>4, AnsweredIs
  <2> DEFINE u == R!Advance(c.seq, 1)
  <2>2. t = u
    BY <2>1
  <2>3. /\ c.seq.phase # "wait" => u = c.seq
        /\ c.seq.phase = "wait" /\ 1 < c.seq.left => u.retries = c.seq.retries
        /\ c.seq.phase = "wait" /\ ~(1 < c.seq.left) => u.retries = c.seq.retries + 1
    BY <1>1, TimePasses DEF SequencerIs
  <2> HIDE DEF u, t
  <2>4. u.retries # c.seq.retries <=> c.seq.phase = "wait" /\ c.seq.left = 1
    BY <1>1, <2>3
  <2> QED  BY <1>2, <1>4, <2>2, <2>4 DEF RunsLate
<1> QED  BY <1>3, <1>4

\* After an answer and the time that has passed.
Timed(c, x) ==
  [R!Advance(IF Succeeds(c, x) THEN Answered(c, x) ELSE c.seq, 1) EXCEPT !.retries = 0]

LEMMA RetriesForgotten ==
  ASSUME NEW s, SequencerOK(s)
  PROVE  SequencerIs([s EXCEPT !.retries = 0], s.phase, s.noops, s.all_streams, s.responses,
                     s.left, 0)
BY DEF SequencerIs, SequencerOK, SequencerNames

LEMMA TimedIs ==
  ASSUME NEW c, ControlOK(c), NEW x
  PROVE  SequencerIs(Timed(c, x),
           IF RunsLate(c, x) THEN "noops" ELSE IF Succeeds(c, x) THEN "normal" ELSE c.seq.phase,
           IF RunsLate(c, x) THEN NoOps ELSE c.seq.noops,
           c.seq.all_streams, c.seq.responses,
           IF RunsLate(c, x) \/ Succeeds(c, x) THEN 0
           ELSE IF c.seq.phase = "wait" THEN c.seq.left - 1 ELSE c.seq.left, 0)
<1> DEFINE s == c.seq
           a == Answered(c, x)
<1>1. SequencerOK(s) /\ (s.phase = "wait" => s.left >= 1) /\ s.left \in Int
  BY DEF ControlOK, SequencerOK
<1>2. CASE Succeeds(c, x)
  <2>1. SequencerIs(a, "normal", s.noops, s.all_streams, s.responses, 0, s.retries)
    BY <1>2, AnsweredIs
  <2> HIDE DEF a
  <2>2. R!Advance(a, 1) = a
    BY <2>1, TimePasses DEF SequencerIs
  <2>3. SequencerIs([a EXCEPT !.retries = 0], "normal", s.noops, s.all_streams, s.responses, 0, 0)
    BY <2>1, RetriesForgotten DEF SequencerIs
  <2>4. Timed(c, x) = [a EXCEPT !.retries = 0]
    BY <1>2, <2>2 DEF Timed, a
  <2>5. ~RunsLate(c, x)
    BY <1>2 DEF RunsLate
  <2> QED  BY <1>2, <2>3, <2>4, <2>5
<1>3. CASE ~Succeeds(c, x)
  <2> DEFINE t == R!Advance(s, 1)
  <2>1. Timed(c, x) = [t EXCEPT !.retries = 0]
    BY <1>3 DEF Timed
  <2>2. /\ s.phase # "wait" => t = s
        /\ s.phase = "wait" /\ 1 < s.left =>
             SequencerIs(t, "wait", s.noops, s.all_streams, s.responses, s.left - 1, s.retries)
        /\ s.phase = "wait" /\ ~(1 < s.left) =>
             SequencerIs(t, "noops", NoOps, s.all_streams, s.responses, 0, s.retries + 1)
    BY <1>1, TimePasses
  <2>3. RunsLate(c, x) <=> s.phase = "wait" /\ ~(1 < s.left)
    BY <1>1, <1>3 DEF RunsLate
  <2> HIDE DEF t
  <2>4. CASE s.phase # "wait"
    <3>1. SequencerIs([t EXCEPT !.retries = 0], s.phase, s.noops, s.all_streams, s.responses,
                      s.left, 0)
      BY <1>1, <2>2, <2>4, RetriesForgotten
    <3> QED  BY <1>3, <2>1, <2>3, <2>4, <3>1
  <2>5. CASE s.phase = "wait" /\ 1 < s.left
    <3>1. SequencerIs([t EXCEPT !.retries = 0], "wait", s.noops, s.all_streams, s.responses,
                      s.left - 1, 0)
      BY <2>2, <2>5, RetriesForgotten DEF SequencerIs
    <3> QED  BY <1>3, <2>1, <2>3, <2>5, <3>1
  <2>6. CASE s.phase = "wait" /\ ~(1 < s.left)
    <3>1. SequencerIs([t EXCEPT !.retries = 0], "noops", NoOps, s.all_streams, s.responses, 0, 0)
      BY <2>2, <2>6, RetriesForgotten DEF SequencerIs
    <3> QED  BY <1>3, <2>1, <2>3, <2>6, <3>1
  <2> QED  BY <2>4, <2>5, <2>6
<1> QED  BY <1>2, <1>3

\* After a local request, and after the word that is taken.
Asked(c, x) == IF Begins(c, x) THEN R!Request(Timed(c, x), x.local_all) ELSE Timed(c, x)
Sequenced(c, x) == IF Stands(c, x) /\ x.take THEN R!Service(Asked(c, x)) ELSE Asked(c, x)

\* What an edge leaves of the sequencer before a request of the peer.
SequencedAs(t, c, x) ==
  SequencerIs(t,
    IF Begins(c, x) \/ RunsLate(c, x) THEN "noops"
    ELSE IF Gone(c, x, "noop") /\ c.seq.noops = 1 THEN "request"
    ELSE IF Gone(c, x, "request") THEN "wait"
    ELSE IF Succeeds(c, x) THEN "normal" ELSE c.seq.phase,
    IF Begins(c, x) \/ RunsLate(c, x) THEN NoOps
    ELSE IF Gone(c, x, "noop") THEN c.seq.noops - 1 ELSE c.seq.noops,
    IF Begins(c, x) THEN x.local_all ELSE c.seq.all_streams,
    IF Gone(c, x, "response") THEN Tail(c.seq.responses) ELSE c.seq.responses,
    IF Begins(c, x) \/ RunsLate(c, x) \/ Succeeds(c, x) THEN 0
    ELSE IF Gone(c, x, "request") THEN Timeout
    ELSE IF c.seq.phase = "wait" THEN c.seq.left - 1 ELSE c.seq.left, 0)

LEMMA SequencedIs ==
  ASSUME NEW c, ControlOK(c), NEW x, ControlInputOK(x)
  PROVE  SequencedAs(Sequenced(c, x), c, x)
<1> DEFINE s == c.seq
           t == Timed(c, x)
           late == RunsLate(c, x)
           success == Succeeds(c, x)
           start == Begins(c, x)
           stands == Stands(c, x)
<1>1. SequencerIs(t, IF late THEN "noops" ELSE IF success THEN "normal" ELSE s.phase,
                  IF late THEN NoOps ELSE s.noops, s.all_streams, s.responses,
                  IF late \/ success THEN 0 ELSE IF s.phase = "wait" THEN s.left - 1 ELSE s.left, 0)
  BY TimedIs
<1>2. SequencerOK(s) /\ s.phase \in {"normal", "noops", "request", "wait"} /\ x.local_all \in BOOLEAN
      /\ x.take \in BOOLEAN
  BY DEF ControlOK, SequencerOK, ControlInputOK, R!Phases
<1>3. /\ start => s.phase = "normal" /\ ~late /\ ~success /\ ~stands
      /\ late => s.phase = "wait" /\ ~success /\ ~stands
      /\ success => s.phase = "wait"
  BY DEF Begins, RunsLate, Succeeds, Stands
<1>4. \A kind \in {"noop", "request", "response"} :
        Gone(c, x, kind) <=> stands /\ x.take /\ R!Offer(s) = kind
  BY DEF Gone
<1>5. R!Offer(s) = IF s.phase = "noops" THEN "noop"
                   ELSE IF s.phase = "request" THEN "request"
                   ELSE IF s.responses = << >> THEN "none" ELSE "response"
  BY <1>2, OfferIs
<1>6. stands => R!Offer(s) # "none"
  BY DEF Stands
<1> HIDE DEF t, late, success, start, stands
<1>7. CASE start
  <2>1. SequencerOK(t) /\ t.responses = s.responses
    BY <1>1 DEF SequencerIs
  <2>2. SequencerIs(R!Request(t, x.local_all), "noops", NoOps, x.local_all, s.responses, 0, 0)
    BY <1>1, <1>2, <2>1, Requests DEF SequencerIs
  <2>3. Sequenced(c, x) = R!Request(t, x.local_all)
    BY <1>3, <1>7 DEF Sequenced, Asked, start, stands, t
  <2> QED  BY <1>3, <1>4, <1>7, <2>2, <2>3 DEF SequencedAs, start
<1>8. CASE late
  <2>1. SequencerIs(t, "noops", NoOps, s.all_streams, s.responses, 0, 0)
    BY <1>1, <1>8
  <2>2. Sequenced(c, x) = t
    BY <1>3, <1>8 DEF Sequenced, Asked, start, stands, t
  <2> QED  BY <1>3, <1>4, <1>8, <2>1, <2>2 DEF SequencedAs, start, late
<1>9. CASE ~start /\ ~late /\ ~(stands /\ x.take)
  <2>1. SequencerIs(t, IF success THEN "normal" ELSE s.phase, s.noops, s.all_streams, s.responses,
                    IF success THEN 0 ELSE IF s.phase = "wait" THEN s.left - 1 ELSE s.left, 0)
    BY <1>1, <1>9
  <2>2. Sequenced(c, x) = t
    BY <1>9 DEF Sequenced, Asked, start, stands, t
  <2> QED  BY <1>4, <1>9, <2>1, <2>2 DEF SequencedAs, start, late, success
<1>10. CASE ~start /\ ~late /\ stands /\ x.take
  <2>1. SequencerIs(t, IF success THEN "normal" ELSE s.phase, s.noops, s.all_streams, s.responses,
                    IF success THEN 0 ELSE IF s.phase = "wait" THEN s.left - 1 ELSE s.left, 0)
    BY <1>1, <1>10
  <2>2. Sequenced(c, x) = R!Service(t)
    BY <1>10 DEF Sequenced, Asked, start, stands, t
  <2>3. R!Offer(t) = R!Offer(s)
    <3>1. R!Offer(t) = IF t.phase = "noops" THEN "noop"
                       ELSE IF t.phase = "request" THEN "request"
                       ELSE IF t.responses = << >> THEN "none" ELSE "response"
      BY <2>1, OfferIs DEF SequencerIs
    <3>2. t.phase = (IF success THEN "normal" ELSE s.phase) /\ t.responses = s.responses
      BY <2>1 DEF SequencerIs
    <3> QED  BY <1>3, <1>5, <3>1, <3>2
  <2> DEFINE v == R!Service(t)
  <2>4. /\ R!Offer(t) = "noop" =>
             SequencerIs(v, IF t.noops = 1 THEN "request" ELSE t.phase, t.noops - 1,
                         t.all_streams, t.responses, t.left, t.retries)
        /\ R!Offer(t) = "request" =>
             SequencerIs(v, "wait", t.noops, t.all_streams, t.responses, Timeout, t.retries)
        /\ R!Offer(t) = "response" =>
             SequencerIs(v, t.phase, t.noops, t.all_streams, Tail(t.responses), t.left, t.retries)
    BY <2>1, Serves DEF SequencerIs
  <2>5. /\ t.phase = (IF success THEN "normal" ELSE s.phase) /\ t.noops = s.noops
        /\ t.all_streams = s.all_streams /\ t.responses = s.responses /\ t.retries = 0
        /\ t.left = IF success THEN 0 ELSE IF s.phase = "wait" THEN s.left - 1 ELSE s.left
    BY <2>1 DEF SequencerIs
  <2> HIDE DEF v
  <2>6. CASE R!Offer(s) = "noop"
    <3>1. s.phase = "noops" /\ ~success
      BY <1>3, <1>5, <2>6
    <3>2. SequencerIs(v, IF s.noops = 1 THEN "request" ELSE s.phase, s.noops - 1,
                      s.all_streams, s.responses, s.left, 0)
      BY <2>3, <2>4, <2>5, <2>6, <3>1
    <3> QED  BY <1>4, <1>10, <2>2, <2>6, <3>1, <3>2 DEF SequencedAs, start, late, success, v
  <2>7. CASE R!Offer(s) = "request"
    <3>1. s.phase = "request" /\ ~success
      BY <1>3, <1>5, <2>7
    <3>2. SequencerIs(v, "wait", s.noops, s.all_streams, s.responses, Timeout, 0)
      BY <2>3, <2>4, <2>5, <2>7, <3>1
    <3> QED  BY <1>4, <1>10, <2>2, <2>7, <3>1, <3>2 DEF SequencedAs, start, late, success, v
  <2>8. CASE R!Offer(s) = "response"
    <3>1. SequencerIs(v, IF success THEN "normal" ELSE s.phase, s.noops, s.all_streams,
                      Tail(s.responses),
                      IF success THEN 0 ELSE IF s.phase = "wait" THEN s.left - 1 ELSE s.left, 0)
      BY <2>3, <2>4, <2>5, <2>8
    <3> QED  BY <1>4, <1>10, <2>2, <2>8, <3>1 DEF SequencedAs, start, late, success, v
  <2> QED  BY <1>5, <1>6, <1>10, <2>6, <2>7, <2>8
<1> QED  BY <1>7, <1>8, <1>9, <1>10

\* What the reference shows at an edge.
LEMMA ControlShows ==
  ASSUME NEW c, ControlOK(c), NEW x, ControlInputOK(x), ~x.reset, ~c.fault
  PROVE  LET y == ControlSignals(c, x)
         IN  /\ y.local_ready = (c.seq.phase = "normal")
             /\ y.stream_reset = (\/ c.seq.phase # "normal" \/ c.seq.responses # << >>
                                  \/ Begins(c, x) \/ x.request)
             /\ y.block_messages = (\/ c.seq.phase \in {"noops", "request"}
                                    \/ Begins(c, x) \/ RunsLate(c, x))
             /\ y.pending = Stands(c, x)
             /\ y.word = (IF Stands(c, x) THEN ControlWord(c) ELSE <<"none", FALSE>>)
             /\ y.waiting = (c.seq.phase = "wait")
             /\ y.noops_left = (IF R!Offer(c.seq) = "noop" THEN NoOps - c.noops_sent ELSE 0)
             /\ y.response_count = c.owed
             /\ y.local_start = Begins(c, x)
             /\ y.local_done = (Succeeds(c, x) /\ ~Mistaken(c, x))
             /\ y.retry = (RunsLate(c, x) /\ ~Mistaken(c, x))
             /\ y.reply_done = Gone(c, x, "response")
             /\ y.fault = FALSE
             /\ y.error = Mistaken(c, x)
             /\ y = [local_ready |-> y.local_ready, stream_reset |-> y.stream_reset,
                     block_messages |-> y.block_messages, pending |-> y.pending, word |-> y.word,
                     waiting |-> y.waiting, noops_left |-> y.noops_left,
                     response_count |-> y.response_count, local_start |-> y.local_start,
                     local_done |-> y.local_done, retry |-> y.retry, reply_done |-> y.reply_done,
                     fault |-> y.fault, error |-> y.error]
<1> DEFINE y == ControlSignals(c, x)
           ready == ~R!BlockMessages(c.seq) /\ ~(c.seq.phase = "wait")
           start == x.local /\ ready
           success == x.response /\ x.status = R!SUCCESS /\ c.seq.phase = "wait"
           timeout == TimesOut(c, x)
           pending == ~start /\ ~timeout /\ R!Offer(c.seq) # "none"
           reply == pending /\ R!Offer(c.seq) = "response" /\ x.take
           error == Overflows(c, x, reply) \/ (x.take /\ ~pending)
<1>1. y = [local_ready |-> ready,
           stream_reset |-> R!StreamDisabled(c.seq) \/ start \/ x.request,
           block_messages |-> R!BlockMessages(c.seq) \/ start \/ timeout,
           pending |-> pending,
           word |-> IF pending THEN ControlWord(c) ELSE <<"none", FALSE>>,
           waiting |-> c.seq.phase = "wait",
           noops_left |-> IF R!Offer(c.seq) = "noop" THEN NoOps - c.noops_sent ELSE 0,
           response_count |-> c.owed,
           local_start |-> start, local_done |-> success /\ ~error,
           retry |-> timeout /\ ~error, reply_done |-> reply, fault |-> FALSE,
           error |-> error]
  BY DEF ControlSignals
<1>2. c.seq.held = FALSE /\ c.seq.phase \in {"normal", "noops", "request", "wait"}
  BY DEF ControlOK, SequencerOK, R!Phases
<1>3. ready <=> c.seq.phase = "normal"
  BY <1>2 DEF R!BlockMessages
<1>4. R!BlockMessages(c.seq) <=> c.seq.phase \in {"noops", "request"}
  BY <1>2 DEF R!BlockMessages
<1>5. R!StreamDisabled(c.seq) <=> c.seq.phase # "normal" \/ c.seq.responses # << >>
  BY <1>2 DEF R!StreamDisabled
<1>6. timeout <=> RunsLate(c, x)
  BY TimesOutIs
<1>7. success <=> Succeeds(c, x)
  BY DEF Succeeds, R!SUCCESS
<1> HIDE DEF y, ready, timeout, success
<1>8. start <=> Begins(c, x)
  BY <1>3 DEF Begins
<1> HIDE DEF start
<1>9. pending <=> Stands(c, x)
  BY <1>6, <1>8 DEF Stands
<1> HIDE DEF pending
<1>10. reply <=> Gone(c, x, "response")
  BY <1>9 DEF Gone
<1> HIDE DEF reply
<1>11. error <=> Mistaken(c, x)
  BY <1>9, <1>10 DEF Mistaken, Overflows
<1> HIDE DEF error
<1>12. /\ y.local_ready = ready /\ y.stream_reset = (R!StreamDisabled(c.seq) \/ start \/ x.request)
       /\ y.block_messages = (R!BlockMessages(c.seq) \/ start \/ timeout)
       /\ y.pending = pending
       /\ y.word = (IF pending THEN ControlWord(c) ELSE <<"none", FALSE>>)
       /\ y.waiting = (c.seq.phase = "wait")
       /\ y.noops_left = (IF R!Offer(c.seq) = "noop" THEN NoOps - c.noops_sent ELSE 0)
       /\ y.response_count = c.owed
       /\ y.local_start = start /\ y.local_done = (success /\ ~error)
       /\ y.retry = (timeout /\ ~error) /\ y.reply_done = reply /\ y.fault = FALSE
       /\ y.error = error
  BY <1>1
<1>13. y = [local_ready |-> y.local_ready, stream_reset |-> y.stream_reset,
            block_messages |-> y.block_messages, pending |-> y.pending, word |-> y.word,
            waiting |-> y.waiting, noops_left |-> y.noops_left,
            response_count |-> y.response_count, local_start |-> y.local_start,
            local_done |-> y.local_done, retry |-> y.retry, reply_done |-> y.reply_done,
            fault |-> y.fault, error |-> y.error]
  BY <1>1
<1>14. /\ ready = (c.seq.phase = "normal") /\ pending = Stands(c, x) /\ start = Begins(c, x)
       /\ success = Succeeds(c, x) /\ timeout = RunsLate(c, x)
       /\ reply = Gone(c, x, "response") /\ error = Mistaken(c, x)
  <2>1. /\ ready \in BOOLEAN /\ pending \in BOOLEAN /\ start \in BOOLEAN /\ success \in BOOLEAN
        /\ timeout \in BOOLEAN /\ reply \in BOOLEAN /\ error \in BOOLEAN
    BY DEF ready, pending, start, success, timeout, reply, error, TimesOut
  <2>2. /\ Stands(c, x) \in BOOLEAN /\ Begins(c, x) \in BOOLEAN /\ Succeeds(c, x) \in BOOLEAN
        /\ RunsLate(c, x) \in BOOLEAN /\ Gone(c, x, "response") \in BOOLEAN
        /\ Mistaken(c, x) \in BOOLEAN
    BY DEF Stands, Begins, Succeeds, RunsLate, Gone, Mistaken
  <2> QED  BY <1>3, <1>6, <1>7, <1>8, <1>9, <1>10, <1>11, <2>1, <2>2
<1> QED  BY <1>4, <1>5, <1>12, <1>13, <1>14 DEF y

\* An edge without reset, fault or mistake.
LEMMA ControlStepIs ==
  ASSUME NEW c, ControlOK(c), NEW x, ControlInputOK(x), ~x.reset, ~c.fault, ~Mistaken(c, x)
  PROVE  LET n == ControlStep(c, x)
         IN  /\ DOMAIN n = {"seq", "owed", "noops_sent", "fault"}
             /\ n.fault = FALSE
             /\ n.seq = (IF x.request THEN R!ReceiveRequest(Sequenced(c, x), 0, x.request_all)
                         ELSE Sequenced(c, x))
             /\ n.owed = c.owed + (IF x.request THEN 1 ELSE 0)
                           - (IF Gone(c, x, "response") THEN 1 ELSE 0)
             /\ n.noops_sent = (IF Gone(c, x, "noop")
                                THEN (IF RunsLate(c, x) \/ Begins(c, x) THEN 0 ELSE c.noops_sent) + 1
                                ELSE IF RunsLate(c, x) \/ Begins(c, x) THEN 0 ELSE c.noops_sent)
<1> DEFINE n == ControlStep(c, x)
           y == ControlSignals(c, x)
<1>1. /\ y.pending = Stands(c, x)
      /\ y.word = (IF Stands(c, x) THEN ControlWord(c) ELSE <<"none", FALSE>>)
      /\ y.local_start = Begins(c, x) /\ y.local_done = (Succeeds(c, x) /\ ~Mistaken(c, x))
      /\ y.retry = (RunsLate(c, x) /\ ~Mistaken(c, x)) /\ y.reply_done = Gone(c, x, "response")
      /\ y.error = Mistaken(c, x)
  BY ControlShows
<1>2. /\ DOMAIN c = {"seq", "owed", "noops_sent", "fault"} /\ c.fault \in BOOLEAN
      /\ x.reset \in BOOLEAN
  BY DEF ControlOK, ControlInputOK
<1> DEFINE timed == [R!Advance(IF y.local_done THEN Answered(c, x) ELSE c.seq, 1)
                       EXCEPT !.retries = 0]
           asked == IF y.local_start THEN R!Request(timed, x.local_all) ELSE timed
           served == IF y.pending /\ x.take THEN R!Service(asked) ELSE asked
           sent == IF y.retry \/ y.local_start THEN 0 ELSE c.noops_sent
           m == [c EXCEPT
                   !.seq = IF x.request THEN R!ReceiveRequest(served, 0, x.request_all) ELSE served,
                   !.owed = @ + (IF x.request THEN 1 ELSE 0) - (IF y.reply_done THEN 1 ELSE 0),
                   !.noops_sent = IF x.take /\ y.word[1] = "noop" THEN sent + 1 ELSE sent]
<1>3. n = m
  BY <1>1 DEF ControlStep
<1> HIDE DEF y
<1>4. timed = Timed(c, x)
  BY <1>1 DEF Timed
<1> HIDE DEF timed
<1>5. asked = Asked(c, x)
  BY <1>1, <1>4 DEF Asked
<1> HIDE DEF asked
<1>6. served = Sequenced(c, x)
  BY <1>1, <1>5 DEF Sequenced
<1> HIDE DEF served
<1>7. x.take /\ y.word[1] = "noop" <=> Gone(c, x, "noop")
  <2>1. y.word[1] = IF Stands(c, x) THEN R!Offer(c.seq) ELSE "none"
    BY <1>1 DEF ControlWord
  <2>2. ~Stands(c, x) => ~Gone(c, x, "noop")
    BY DEF Gone
  <2> QED  BY <2>1, <2>2 DEF Gone
<1>8. sent = IF RunsLate(c, x) \/ Begins(c, x) THEN 0 ELSE c.noops_sent
  BY <1>1
<1> HIDE DEF sent
<1>9. /\ DOMAIN m = {"seq", "owed", "noops_sent", "fault"} /\ m.fault = c.fault
      /\ m.seq = (IF x.request THEN R!ReceiveRequest(served, 0, x.request_all) ELSE served)
      /\ m.owed = c.owed + (IF x.request THEN 1 ELSE 0) - (IF y.reply_done THEN 1 ELSE 0)
      /\ m.noops_sent = IF x.take /\ y.word[1] = "noop" THEN sent + 1 ELSE sent
  BY <1>2
<1> HIDE DEF m, n
<1>10. c.fault = FALSE
  BY <1>2
<1>11. /\ DOMAIN n = {"seq", "owed", "noops_sent", "fault"} /\ n.fault = FALSE
       /\ n.seq = (IF x.request THEN R!ReceiveRequest(Sequenced(c, x), 0, x.request_all)
                   ELSE Sequenced(c, x))
  BY <1>3, <1>6, <1>9, <1>10
<1>12. n.owed = c.owed + (IF x.request THEN 1 ELSE 0)
                  - (IF Gone(c, x, "response") THEN 1 ELSE 0)
  BY <1>1, <1>3, <1>9
<1>13. n.noops_sent = (IF Gone(c, x, "noop")
                       THEN (IF RunsLate(c, x) \/ Begins(c, x) THEN 0 ELSE c.noops_sent) + 1
                       ELSE IF RunsLate(c, x) \/ Begins(c, x) THEN 0 ELSE c.noops_sent)
  BY <1>3, <1>7, <1>8, <1>9
<1> QED  BY <1>11, <1>12, <1>13 DEF n

LEMMA ControlStarts == ControlOK(ControlReset) /\ ControlOK([ControlReset EXCEPT !.fault = TRUE])
<1> DEFINE s == R!ReleaseHold(R!SequencerReset)
<1>1. SequencerIs(s, "normal", 0, FALSE, << >>, 0, 0)
  BY DEF R!ReleaseHold, R!SequencerReset, R!Phases, SequencerIs, SequencerOK, SequencerNames
<1>2. Len(<< >>) = 0 /\ 0 <= ResponseDepth
  BY UartCycleAssumption
<1> DEFINE a == ControlReset
           b == [ControlReset EXCEPT !.fault = TRUE]
<1>3. /\ DOMAIN a = {"seq", "owed", "noops_sent", "fault"}
      /\ a.seq = s /\ a.owed = 0 /\ a.noops_sent = 0 /\ a.fault = FALSE
      /\ DOMAIN b = {"seq", "owed", "noops_sent", "fault"}
      /\ b.seq = s /\ b.owed = 0 /\ b.noops_sent = 0 /\ b.fault = TRUE
  BY DEF ControlReset
<1> HIDE DEF s, a, b
<1>4. /\ SequencerOK(s) /\ s.retries = 0 /\ s.phase = "normal" /\ 0 = Len(s.responses)
      /\ 0 \in Int
  BY <1>1, <1>2 DEF SequencerIs
<1>5. ControlOK(a)
  BY <1>2, <1>3, <1>4 DEF ControlOK
<1>6. ControlOK(b)
  BY <1>2, <1>3, <1>4 DEF ControlOK
<1> QED  BY <1>5, <1>6 DEF a, b

\* The parts of the sequencer after an edge without reset, fault or mistake.
LEMMA SequencerGoes ==
  ASSUME NEW c, ControlOK(c), NEW x, ControlInputOK(x), ~x.reset, ~c.fault, ~Mistaken(c, x)
  PROVE  LET n == ControlStep(c, x)
             v == Sequenced(c, x)
         IN  /\ SequencerOK(v) /\ SequencerOK(n.seq)
             /\ n.seq.phase = v.phase /\ n.seq.noops = v.noops /\ n.seq.left = v.left
             /\ n.seq.all_streams = v.all_streams /\ n.seq.retries = 0
             /\ n.seq.responses = IF x.request THEN Append(v.responses, x.request_all)
                                  ELSE v.responses
<1> DEFINE n == ControlStep(c, x)
           v == Sequenced(c, x)
<1>1. SequencerOK(v) /\ v.retries = 0
  <2>1. SequencedAs(v, c, x)
    BY SequencedIs
  <2> QED  BY <2>1 DEF SequencedAs, SequencerIs
<1>2. n.seq = IF x.request THEN R!ReceiveRequest(v, 0, x.request_all) ELSE v
  BY ControlStepIs
<1>3. x.request_all \in BOOLEAN
  BY DEF ControlInputOK
<1> HIDE DEF n, v
<1>4. CASE x.request
  <2>1. SequencerIs(R!ReceiveRequest(v, 0, x.request_all), v.phase, v.noops, v.all_streams,
                    Append(v.responses, x.request_all), v.left, v.retries)
    BY <1>1, <1>3, RequestIsOwed
  <2> QED  BY <1>1, <1>2, <1>4, <2>1 DEF SequencerIs, n, v
<1>5. CASE ~x.request
  BY <1>1, <1>2, <1>5 DEF n, v
<1> QED  BY <1>4, <1>5

LEMMA ControlStays ==
  ASSUME NEW c, ControlOK(c), NEW x, ControlInputOK(x)
  PROVE  ControlOK(ControlStep(c, x))
<1> DEFINE n == ControlStep(c, x)
           s == c.seq
           v == Sequenced(c, x)
<1>1. CASE x.reset
  BY <1>1, ControlStarts DEF ControlStep
<1>2. CASE ~x.reset /\ (c.fault \/ Mistaken(c, x))
  <2>1. c.fault \/ ControlSignals(c, x).error
    BY <1>2, ControlShows
  <2>2. n = [ControlReset EXCEPT !.fault = TRUE]
    BY <1>2, <2>1 DEF ControlStep
  <2> QED  BY <2>2, ControlStarts
<1>3. CASE ~x.reset /\ ~c.fault /\ ~Mistaken(c, x)
  <2>1. /\ DOMAIN n = {"seq", "owed", "noops_sent", "fault"} /\ n.fault = FALSE
        /\ n.owed = c.owed + (IF x.request THEN 1 ELSE 0)
                      - (IF Gone(c, x, "response") THEN 1 ELSE 0)
        /\ n.noops_sent = (IF Gone(c, x, "noop")
                           THEN (IF RunsLate(c, x) \/ Begins(c, x) THEN 0 ELSE c.noops_sent) + 1
                           ELSE IF RunsLate(c, x) \/ Begins(c, x) THEN 0 ELSE c.noops_sent)
    BY <1>3, ControlStepIs
  <2>2. /\ SequencerOK(v) /\ SequencerOK(n.seq)
        /\ n.seq.phase = v.phase /\ n.seq.noops = v.noops /\ n.seq.left = v.left
        /\ n.seq.retries = 0
        /\ n.seq.responses = IF x.request THEN Append(v.responses, x.request_all)
                             ELSE v.responses
    BY <1>3, SequencerGoes
  <2>3. /\ v.phase = IF Begins(c, x) \/ RunsLate(c, x) THEN "noops"
                     ELSE IF Gone(c, x, "noop") /\ s.noops = 1 THEN "request"
                     ELSE IF Gone(c, x, "request") THEN "wait"
                     ELSE IF Succeeds(c, x) THEN "normal" ELSE s.phase
        /\ v.noops = IF Begins(c, x) \/ RunsLate(c, x) THEN NoOps
                     ELSE IF Gone(c, x, "noop") THEN s.noops - 1 ELSE s.noops
        /\ v.left = IF Begins(c, x) \/ RunsLate(c, x) \/ Succeeds(c, x) THEN 0
                    ELSE IF Gone(c, x, "request") THEN Timeout
                    ELSE IF s.phase = "wait" THEN s.left - 1 ELSE s.left
        /\ v.responses = IF Gone(c, x, "response") THEN Tail(s.responses) ELSE s.responses
    <3>1. SequencedAs(v, c, x)
      BY SequencedIs
    <3> QED  BY <3>1 DEF SequencedAs, SequencerIs
  <2>4. /\ SequencerOK(s) /\ s.phase \in {"normal", "noops", "request", "wait"}
        /\ s.responses \in Seq(BOOLEAN) /\ s.noops \in Int /\ s.left \in Int
        /\ c.owed = Len(s.responses) /\ c.owed <= ResponseDepth
        /\ c.noops_sent \in Int
        /\ s.phase = "noops" => s.noops >= 1 /\ c.noops_sent + s.noops = NoOps
        /\ s.phase = "wait" => s.left >= 1
    BY DEF ControlOK, SequencerOK, R!Phases
  <2>5. R!Offer(s) = IF s.phase = "noops" THEN "noop"
                     ELSE IF s.phase = "request" THEN "request"
                     ELSE IF s.responses = << >> THEN "none" ELSE "response"
    BY <2>4, OfferIs
  <2>6. /\ NoOps \in Nat \ {0} /\ Timeout \in Nat \ {0} /\ ResponseDepth \in Nat
        /\ x.request \in BOOLEAN /\ x.request_all \in BOOLEAN
    BY UartCycleAssumption DEF ControlInputOK
  <2>7. /\ Gone(c, x, "noop") => s.phase = "noops"
        /\ Gone(c, x, "request") => s.phase = "request"
        /\ Gone(c, x, "response") => s.responses # << >> /\ s.phase \in {"normal", "wait"}
        /\ Gone(c, x, "response") => ~RunsLate(c, x)
    BY <2>4, <2>5 DEF Gone, Stands
  <2>8. /\ Begins(c, x) => s.phase = "normal"
        /\ s.phase = "wait" /\ ~RunsLate(c, x) /\ ~Succeeds(c, x) => s.left # 1
        /\ RunsLate(c, x) => s.phase = "wait"
        /\ Succeeds(c, x) => s.phase = "wait"
    BY DEF Begins, RunsLate, Succeeds
  <2>9. x.request /\ ~Gone(c, x, "response") => c.owed # ResponseDepth
    BY <1>3 DEF Mistaken
  <2> DEFINE gone == Gone(c, x, "response")
  <2> HIDE DEF n, v
  <2>10. n.owed = Len(n.seq.responses) /\ n.owed <= ResponseDepth
    <3>1. Len(v.responses) = c.owed - (IF gone THEN 1 ELSE 0)
          /\ v.responses \in Seq(BOOLEAN)
      <4>1. CASE gone
        <5>1. v.responses = Tail(s.responses) /\ s.responses # << >>
          BY <2>3, <2>7, <4>1
        <5>2. Len(Tail(s.responses)) = Len(s.responses) - 1 /\ Tail(s.responses) \in Seq(BOOLEAN)
          <6>1. s.responses \in Seq(BOOLEAN) /\ s.responses # << >>
            BY <2>4, <5>1
          <6> QED  BY <6>1, HeadTailProperties
        <5> QED  BY <2>4, <4>1, <5>1, <5>2
      <4>2. CASE ~gone
        BY <2>3, <2>4, <4>2
      <4> QED  BY <4>1, <4>2
    <3>2. Len(n.seq.responses) = Len(v.responses) + (IF x.request THEN 1 ELSE 0)
      BY <2>2, <2>6, <3>1
    <3>3. c.owed \in Nat
      BY <2>4
    <3> HIDE DEF gone
    <3>4. Len(n.seq.responses) = n.owed
      BY <2>1, <2>6, <3>1, <3>2, <3>3 DEF gone
    <3>5. n.owed <= ResponseDepth
      <4>1. c.owed \in Nat /\ ResponseDepth \in Nat /\ c.owed <= ResponseDepth
        BY <2>4, <2>6, <3>3
      <4>2. CASE gone
        <5>1. n.owed = c.owed + (IF x.request THEN 1 ELSE 0) - 1
          BY <2>1, <4>2 DEF gone
        <5> QED  BY <4>1, <5>1
      <4>3. CASE ~gone /\ x.request
        <5>1. n.owed = c.owed + 1 - 0 /\ c.owed # ResponseDepth
          BY <2>1, <2>9, <4>3 DEF gone
        <5> QED  BY <4>1, <5>1
      <4>4. CASE ~gone /\ ~x.request
        <5>1. n.owed = c.owed + 0 - 0
          BY <2>1, <4>4 DEF gone
        <5> QED  BY <4>1, <5>1
      <4> QED  BY <2>6, <4>2, <4>3, <4>4
    <3> QED  BY <3>4, <3>5
  <2>11. n.noops_sent \in Int
    BY <2>1, <2>4
  <2>12. n.seq.phase = "noops" => n.seq.noops >= 1 /\ n.noops_sent + n.seq.noops = NoOps
    <3>1. CASE Begins(c, x) \/ RunsLate(c, x)
      <4>1. ~Gone(c, x, "noop")
        BY <3>1 DEF Gone, Stands
      <4>2. n.seq.noops = NoOps /\ n.noops_sent = 0
        BY <2>1, <2>2, <2>3, <3>1, <4>1
      <4> QED  BY <2>6, <4>2
    <3>2. CASE ~Begins(c, x) /\ ~RunsLate(c, x) /\ Gone(c, x, "noop")
      <4>1. n.seq.noops = s.noops - 1 /\ n.noops_sent = c.noops_sent + 1 /\ s.phase = "noops"
        BY <2>1, <2>2, <2>3, <2>7, <3>2
      <4>2. n.seq.phase = "noops" => s.noops # 1
        BY <2>2, <2>3, <3>2
      <4>3. s.noops \in Int /\ c.noops_sent \in Int /\ s.noops >= 1
            /\ c.noops_sent + s.noops = NoOps
        BY <2>4, <4>1
      <4>4. s.noops # 1 => s.noops - 1 >= 1 /\ c.noops_sent + 1 + (s.noops - 1) = NoOps
        BY <2>6, <4>3
      <4>5. n.noops_sent + n.seq.noops = c.noops_sent + 1 + (s.noops - 1)
        BY <4>1
      <4> QED  BY <4>1, <4>2, <4>4, <4>5
    <3>3. CASE ~Begins(c, x) /\ ~RunsLate(c, x) /\ ~Gone(c, x, "noop")
      <4>1. n.seq.noops = s.noops /\ n.noops_sent = c.noops_sent
        BY <2>1, <2>2, <2>3, <3>3
      <4>2. n.seq.phase = "noops" => s.phase = "noops"
        BY <2>2, <2>3, <3>3
      <4> QED  BY <2>4, <4>1, <4>2
    <3> QED  BY <3>1, <3>2, <3>3
  <2>13. n.seq.phase = "wait" => n.seq.left >= 1
    <3>1. CASE Begins(c, x) \/ RunsLate(c, x)
      BY <2>2, <2>3, <3>1
    <3>2. CASE ~Begins(c, x) /\ ~RunsLate(c, x) /\ Gone(c, x, "request")
      <4>1. s.phase # "wait" /\ ~Succeeds(c, x)
        BY <2>7, <3>2 DEF Succeeds
      <4> QED  BY <2>2, <2>3, <2>6, <3>2, <4>1
    <3>3. CASE ~Begins(c, x) /\ ~RunsLate(c, x) /\ ~Gone(c, x, "request")
      <4>1. n.seq.phase = "wait" => s.phase = "wait" /\ ~Succeeds(c, x)
        BY <2>2, <2>3, <3>3
      <4>2. s.phase = "wait" /\ ~Succeeds(c, x) => n.seq.left = s.left - 1 /\ s.left # 1
        BY <2>2, <2>3, <3>3 DEF RunsLate
      <4> QED  BY <2>4, <4>1, <4>2
    <3> QED  BY <3>1, <3>2, <3>3
  <2>14. ControlOK(n)
    BY <2>1, <2>2, <2>10, <2>11, <2>12, <2>13 DEF ControlOK
  <2> QED  BY <2>14 DEF n
<1>4. x.reset \in BOOLEAN
  BY DEF ControlInputOK
<1> QED  BY <1>1, <1>2, <1>3, <1>4

\* The registers of a control.
ControlStands(r, c) ==
  /\ r.sta = c.seq.phase /\ r.noops = (IF c.seq.phase = "noops" THEN c.seq.noops ELSE 0)
  /\ r.wait = (IF c.seq.phase = "wait" THEN Timeout - c.seq.left ELSE 0)
  /\ r.local_all = c.seq.all_streams /\ r.response = c.owed /\ r.fault = c.fault
  /\ r.scope = [i \in 0..ResponseDepth - 1 |->
                  i < Len(c.seq.responses) /\ c.seq.responses[i + 1]]

LEMMA ControlRegistersStand ==
  ASSUME NEW c
  PROVE  ControlStands(ControlRegisters(c), c)
BY DEF ControlStands, ControlRegisters

\* The circuit sees the same things happen.
HwStart(r, x) == r.sta = "normal" /\ x.local
HwSuccess(r, x) == r.sta = "wait" /\ x.response /\ x.status = 0
HwTimeout(r, x) == r.sta = "wait" /\ r.wait = Timeout - 1 /\ ~HwSuccess(r, x)
HwStands(r, x) == /\ ~HwStart(r, x) /\ ~HwTimeout(r, x)
                  /\ r.sta \in {"noops", "request"} \/ r.response # 0
HwKind(r, x) == CASE ~HwStands(r, x) -> "none"
                  [] HwStands(r, x) /\ r.sta = "noops" -> "noop"
                  [] HwStands(r, x) /\ r.sta = "request" -> "request"
                  [] OTHER -> "response"

LEMMA ControlSeesAlike ==
  ASSUME NEW c, ControlOK(c), NEW r, ControlStands(r, c), NEW x
  PROVE  /\ HwStart(r, x) = Begins(c, x)
         /\ HwSuccess(r, x) = Succeeds(c, x)
         /\ HwTimeout(r, x) = RunsLate(c, x)
         /\ HwStands(r, x) = Stands(c, x)
         /\ HwKind(r, x) = IF Stands(c, x) THEN R!Offer(c.seq) ELSE "none"
<1>1. /\ r.sta = c.seq.phase /\ r.response = Len(c.seq.responses)
      /\ c.seq.phase = "wait" => r.wait = Timeout - c.seq.left
  BY DEF ControlStands, ControlOK
<1>2. /\ SequencerOK(c.seq) /\ c.seq.phase \in {"normal", "noops", "request", "wait"}
      /\ c.seq.responses \in Seq(BOOLEAN) /\ c.seq.left \in Int /\ Timeout \in Int
  BY UartCycleAssumption DEF ControlOK, SequencerOK, R!Phases
<1>3. /\ HwStart(r, x) = Begins(c, x) /\ HwSuccess(r, x) = Succeeds(c, x)
  BY <1>1 DEF HwStart, Begins, HwSuccess, Succeeds
<1>4. HwTimeout(r, x) = RunsLate(c, x)
  <2>1. c.seq.phase = "wait" => (r.wait = Timeout - 1 <=> c.seq.left = 1)
    BY <1>1, <1>2
  <2> QED  BY <1>1, <1>3, <2>1 DEF HwTimeout, RunsLate
<1>5. R!Offer(c.seq) = IF c.seq.phase = "noops" THEN "noop"
                       ELSE IF c.seq.phase = "request" THEN "request"
                       ELSE IF c.seq.responses = << >> THEN "none" ELSE "response"
  BY <1>2, OfferIs
<1>6. r.response # 0 <=> c.seq.responses # << >>
  BY <1>1, <1>2
<1>7. R!Offer(c.seq) # "none" <=> r.sta \in {"noops", "request"} \/ r.response # 0
  BY <1>1, <1>2, <1>5, <1>6
<1>8. HwStands(r, x) = Stands(c, x)
  BY <1>3, <1>4, <1>7 DEF HwStands, Stands
<1>9. HwKind(r, x) = IF Stands(c, x) THEN R!Offer(c.seq) ELSE "none"
  <2>1. Stands(c, x) => R!Offer(c.seq) # "none"
    BY DEF Stands
  <2> QED  BY <1>1, <1>5, <1>6, <1>8, <2>1 DEF HwKind
<1> QED  BY <1>3, <1>4, <1>8, <1>9

\* What the circuit shows at an edge, and where it goes.
HwTaken(r, x, k) == HwKind(r, x) = k /\ HwStands(r, x) /\ x.take
HwMistaken(r, x) == \/ x.request /\ r.response = ResponseDepth /\ ~HwTaken(r, x, "response")
                    \/ x.take /\ ~HwStands(r, x)
HwPop(r, x) == IF HwTaken(r, x, "response") THEN 1 ELSE 0
HwPopped(r, x) == [i \in DOMAIN r.scope |->
                     IF HwPop(r, x) = 1 THEN i + 1 \in DOMAIN r.scope /\ r.scope[i + 1]
                     ELSE r.scope[i]]

LEMMA ControlCircuitShows ==
  ASSUME NEW r, NEW x, ~x.reset, ~r.fault
  PROVE  HwControl(r, x).signals =
           [local_ready |-> r.sta = "normal",
            stream_reset |-> HwStart(r, x) \/ x.request \/ r.sta # "normal" \/ r.response # 0,
            block_messages |-> \/ HwStart(r, x) \/ HwTimeout(r, x)
                               \/ r.sta \in {"noops", "request"},
            pending |-> HwStands(r, x),
            word |-> <<HwKind(r, x), CASE HwKind(r, x) = "request" -> r.local_all
                                       [] HwKind(r, x) = "response" -> r.scope[0]
                                       [] OTHER -> FALSE>>,
            waiting |-> r.sta = "wait",
            noops_left |-> IF r.sta = "noops" THEN r.noops ELSE 0,
            response_count |-> r.response,
            local_start |-> HwStart(r, x), local_done |-> HwSuccess(r, x) /\ ~HwMistaken(r, x),
            retry |-> HwTimeout(r, x) /\ ~HwMistaken(r, x),
            reply_done |-> HwTaken(r, x, "response"), fault |-> FALSE,
            error |-> HwMistaken(r, x)]
BY ZenonT(40) DEF HwControl, HwStart, HwSuccess, HwTimeout, HwStands, HwKind, HwTaken, HwMistaken

LEMMA ControlTakesAlike ==
  ASSUME NEW c, ControlOK(c), NEW r, ControlStands(r, c), NEW x, ControlInputOK(x)
  PROVE  /\ HwTaken(r, x, "noop") = Gone(c, x, "noop")
         /\ HwTaken(r, x, "request") = Gone(c, x, "request")
         /\ HwTaken(r, x, "response") = Gone(c, x, "response")
         /\ HwMistaken(r, x) = Mistaken(c, x)
<1>1. /\ HwStands(r, x) = Stands(c, x)
      /\ HwKind(r, x) = IF Stands(c, x) THEN R!Offer(c.seq) ELSE "none"
  BY ControlSeesAlike
<1>2. /\ HwTaken(r, x, "noop") = Gone(c, x, "noop")
      /\ HwTaken(r, x, "request") = Gone(c, x, "request")
      /\ HwTaken(r, x, "response") = Gone(c, x, "response")
  BY <1>1 DEF HwTaken, Gone
<1>3. r.response = c.owed
  BY DEF ControlStands
<1>4. HwMistaken(r, x) = Mistaken(c, x)
  BY <1>1, <1>2, <1>3 DEF HwMistaken, Mistaken
<1> QED  BY <1>2, <1>4

LEMMA ControlWordAgrees ==
  ASSUME NEW c, ControlOK(c), NEW r, ControlStands(r, c), NEW x
  PROVE  <<HwKind(r, x), CASE HwKind(r, x) = "request" -> r.local_all
                           [] HwKind(r, x) = "response" -> r.scope[0]
                           [] OTHER -> FALSE>>
         = IF Stands(c, x) THEN ControlWord(c) ELSE <<"none", FALSE>>
<1> DEFINE kind == R!Offer(c.seq)
           scope == CASE HwKind(r, x) = "request" -> r.local_all
                      [] HwKind(r, x) = "response" -> r.scope[0]
                      [] OTHER -> FALSE
<1>1. HwKind(r, x) = IF Stands(c, x) THEN kind ELSE "none"
  BY ControlSeesAlike
<1>2. ControlWord(c) = <<kind, CASE kind = "request" -> c.seq.all_streams
                                 [] kind = "response" -> Head(c.seq.responses)
                                 [] OTHER -> FALSE>>
  BY DEF ControlWord
<1>3. r.local_all = c.seq.all_streams
  BY DEF ControlStands
<1>4. kind = "response" => r.scope[0] = Head(c.seq.responses)
  <2>1. SequencerOK(c.seq) /\ c.seq.responses \in Seq(BOOLEAN)
    BY DEF ControlOK, SequencerOK
  <2>2. kind = "response" => c.seq.responses # << >>
    BY <2>1, OfferIs
  <2>3. c.seq.responses # << >> => /\ 0 < Len(c.seq.responses)
                                   /\ c.seq.responses[0 + 1] = Head(c.seq.responses)
                                   /\ c.seq.responses[0 + 1] \in BOOLEAN
    BY <2>1
  <2>4. 0 \in 0..ResponseDepth - 1
    BY UartCycleAssumption
  <2>5. r.scope[0] = (0 < Len(c.seq.responses) /\ c.seq.responses[0 + 1])
    BY <2>4 DEF ControlStands
  <2> QED  BY <2>2, <2>3, <2>5
<1> HIDE DEF kind
<1>5. CASE ~Stands(c, x)
  <2>1. scope = FALSE
    BY <1>1, <1>5
  <2> HIDE DEF scope
  <2> QED  BY <1>1, <1>5, <2>1 DEF scope
<1>6. CASE Stands(c, x)
  <2>1. scope = CASE kind = "request" -> c.seq.all_streams
                  [] kind = "response" -> Head(c.seq.responses)
                  [] OTHER -> FALSE
    BY <1>1, <1>3, <1>4, <1>6
  <2> HIDE DEF scope
  <2> QED  BY <1>1, <1>2, <1>6, <2>1 DEF scope
<1> QED  BY <1>5, <1>6

LEMMA ControlShowsAlike ==
  ASSUME NEW c, ControlOK(c), NEW r, ControlStands(r, c), NEW x, ControlInputOK(x)
  PROVE  HwControl(r, x).signals = ControlSignals(c, x)
<1> DEFINE z == HwControl(r, x).signals
           y == ControlSignals(c, x)
<1>1. r.fault = c.fault /\ c.fault \in BOOLEAN /\ x.reset \in BOOLEAN
      /\ r.sta = c.seq.phase /\ r.response = c.owed
  BY DEF ControlStands, ControlOK, ControlInputOK
<1>2. CASE x.reset
  BY <1>2 DEF HwControl, ControlSignals, ControlQuiet
<1>3. CASE ~x.reset /\ c.fault
  <2>1. y = [ControlQuiet EXCEPT !.fault = TRUE]
    BY <1>3 DEF ControlSignals
  <2>2. y = [local_ready |-> FALSE, stream_reset |-> TRUE, block_messages |-> TRUE,
             pending |-> FALSE, word |-> <<"none", FALSE>>, waiting |-> FALSE, noops_left |-> 0,
             response_count |-> 0, local_start |-> FALSE, local_done |-> FALSE, retry |-> FALSE,
             reply_done |-> FALSE, fault |-> TRUE, error |-> FALSE]
    BY <2>1 DEF ControlQuiet
  <2>3. z = [local_ready |-> FALSE, stream_reset |-> TRUE, block_messages |-> TRUE,
             pending |-> FALSE, word |-> <<"none", FALSE>>, waiting |-> FALSE, noops_left |-> 0,
             response_count |-> 0, local_start |-> FALSE, local_done |-> FALSE, retry |-> FALSE,
             reply_done |-> FALSE, fault |-> TRUE, error |-> FALSE]
    BY <1>1, <1>3 DEF HwControl
  <2> QED  BY <2>2, <2>3
<1>4. CASE ~x.reset /\ ~c.fault
  <2>1. /\ y.local_ready = (c.seq.phase = "normal")
        /\ y.stream_reset = (\/ c.seq.phase # "normal" \/ c.seq.responses # << >>
                             \/ Begins(c, x) \/ x.request)
        /\ y.block_messages = (\/ c.seq.phase \in {"noops", "request"}
                               \/ Begins(c, x) \/ RunsLate(c, x))
        /\ y.pending = Stands(c, x)
        /\ y.word = (IF Stands(c, x) THEN ControlWord(c) ELSE <<"none", FALSE>>)
        /\ y.waiting = (c.seq.phase = "wait")
        /\ y.noops_left = (IF R!Offer(c.seq) = "noop" THEN NoOps - c.noops_sent ELSE 0)
        /\ y.response_count = c.owed
        /\ y.local_start = Begins(c, x)
        /\ y.local_done = (Succeeds(c, x) /\ ~Mistaken(c, x))
        /\ y.retry = (RunsLate(c, x) /\ ~Mistaken(c, x))
        /\ y.reply_done = Gone(c, x, "response")
        /\ y.fault = FALSE
        /\ y.error = Mistaken(c, x)
        /\ y = [local_ready |-> y.local_ready, stream_reset |-> y.stream_reset,
                block_messages |-> y.block_messages, pending |-> y.pending, word |-> y.word,
                waiting |-> y.waiting, noops_left |-> y.noops_left,
                response_count |-> y.response_count, local_start |-> y.local_start,
                local_done |-> y.local_done, retry |-> y.retry, reply_done |-> y.reply_done,
                fault |-> y.fault, error |-> y.error]
    BY <1>4, ControlShows
  <2>2. z = [local_ready |-> r.sta = "normal",
             stream_reset |-> HwStart(r, x) \/ x.request \/ r.sta # "normal" \/ r.response # 0,
             block_messages |-> \/ HwStart(r, x) \/ HwTimeout(r, x)
                                \/ r.sta \in {"noops", "request"},
             pending |-> HwStands(r, x),
             word |-> <<HwKind(r, x), CASE HwKind(r, x) = "request" -> r.local_all
                                        [] HwKind(r, x) = "response" -> r.scope[0]
                                        [] OTHER -> FALSE>>,
             waiting |-> r.sta = "wait",
             noops_left |-> IF r.sta = "noops" THEN r.noops ELSE 0,
             response_count |-> r.response,
             local_start |-> HwStart(r, x), local_done |-> HwSuccess(r, x) /\ ~HwMistaken(r, x),
             retry |-> HwTimeout(r, x) /\ ~HwMistaken(r, x),
             reply_done |-> HwTaken(r, x, "response"), fault |-> FALSE,
             error |-> HwMistaken(r, x)]
    BY <1>1, <1>4, ControlCircuitShows, ZenonT(40)
  <2> DEFINE word == <<HwKind(r, x), CASE HwKind(r, x) = "request" -> r.local_all
                                       [] HwKind(r, x) = "response" -> r.scope[0]
                                       [] OTHER -> FALSE>>
  <2> HIDE DEF z, y
  <2>3. /\ HwStart(r, x) = Begins(c, x) /\ HwSuccess(r, x) = Succeeds(c, x)
        /\ HwTimeout(r, x) = RunsLate(c, x) /\ HwStands(r, x) = Stands(c, x)
        /\ HwTaken(r, x, "response") = Gone(c, x, "response")
        /\ HwMistaken(r, x) = Mistaken(c, x)
    BY ControlSeesAlike, ControlTakesAlike
  <2>4. word = IF Stands(c, x) THEN ControlWord(c) ELSE <<"none", FALSE>>
    BY ControlWordAgrees
  <2> HIDE DEF word
  <2>5. /\ z.local_ready = (r.sta = "normal")
        /\ z.stream_reset = (HwStart(r, x) \/ x.request \/ r.sta # "normal" \/ r.response # 0)
        /\ z.block_messages = (\/ HwStart(r, x) \/ HwTimeout(r, x)
                               \/ r.sta \in {"noops", "request"})
        /\ z.pending = HwStands(r, x) /\ z.word = word
        /\ z.waiting = (r.sta = "wait")
        /\ z.noops_left = (IF r.sta = "noops" THEN r.noops ELSE 0)
        /\ z.response_count = r.response
        /\ z.local_start = HwStart(r, x) /\ z.local_done = (HwSuccess(r, x) /\ ~HwMistaken(r, x))
        /\ z.retry = (HwTimeout(r, x) /\ ~HwMistaken(r, x))
        /\ z.reply_done = HwTaken(r, x, "response") /\ z.fault = FALSE
        /\ z.error = HwMistaken(r, x)
    BY <2>2 DEF word
  <2>6. z = [local_ready |-> z.local_ready, stream_reset |-> z.stream_reset,
             block_messages |-> z.block_messages, pending |-> z.pending, word |-> z.word,
             waiting |-> z.waiting, noops_left |-> z.noops_left,
             response_count |-> z.response_count, local_start |-> z.local_start,
             local_done |-> z.local_done, retry |-> z.retry, reply_done |-> z.reply_done,
             fault |-> z.fault, error |-> z.error]
    BY <2>2
  <2>7. c.seq.responses # << >> <=> r.response # 0
    <3>1. c.seq.responses \in Seq(BOOLEAN) /\ c.owed = Len(c.seq.responses)
      BY DEF ControlOK, SequencerOK
    <3> QED  BY <1>1, <3>1
  <2>8. z.noops_left = y.noops_left
    <3>1. SequencerOK(c.seq) /\ c.noops_sent \in Int /\ c.seq.noops \in Int /\ NoOps \in Int
          /\ (c.seq.phase = "noops" => c.noops_sent + c.seq.noops = NoOps)
      BY UartCycleAssumption DEF ControlOK, SequencerOK
    <3>2. R!Offer(c.seq) = "noop" <=> c.seq.phase = "noops"
      BY <3>1, OfferIs
    <3>3. c.seq.phase = "noops" => r.noops = c.seq.noops
      BY DEF ControlStands
    <3>4. c.seq.phase = "noops" => NoOps - c.noops_sent = c.seq.noops
      BY <3>1
    <3> QED  BY <1>1, <2>1, <2>5, <3>2, <3>3, <3>4
  <2>9. z.stream_reset = y.stream_reset /\ z.block_messages = y.block_messages
    BY <1>1, <2>1, <2>3, <2>5, <2>7
  <2>10. /\ z.local_ready = y.local_ready /\ z.pending = y.pending /\ z.word = y.word
         /\ z.waiting = y.waiting /\ z.response_count = y.response_count
         /\ z.local_start = y.local_start /\ z.local_done = y.local_done /\ z.retry = y.retry
         /\ z.reply_done = y.reply_done /\ z.fault = y.fault /\ z.error = y.error
    BY <1>1, <2>1, <2>3, <2>4, <2>5, ZenonT(40)
  <2>11. z = y
    BY <2>1, <2>6, <2>8, <2>9, <2>10
  <2> QED  BY <2>11 DEF z, y
<1> QED  BY <1>1, <1>2, <1>3, <1>4

\* Where the circuit goes at an edge without reset, fault or mistake.
HwGoes(q, r, x) ==
  /\ q.sta = (IF HwStart(r, x) \/ HwTimeout(r, x) THEN "noops"
              ELSE IF HwTaken(r, x, "noop") /\ r.noops = 1 THEN "request"
              ELSE IF HwTaken(r, x, "request") THEN "wait"
              ELSE IF HwSuccess(r, x) THEN "normal" ELSE r.sta)
  /\ q.noops = (IF HwStart(r, x) \/ HwTimeout(r, x) THEN NoOps
                ELSE IF HwTaken(r, x, "noop") THEN r.noops - 1 ELSE r.noops)
  /\ q.wait = (IF r.sta # "wait" \/ HwSuccess(r, x) \/ HwTimeout(r, x) THEN 0 ELSE r.wait + 1)
  /\ q.local_all = (IF HwStart(r, x) THEN x.local_all ELSE r.local_all)
  /\ q.response = r.response + (IF x.request THEN 1 ELSE 0) - HwPop(r, x)
  /\ q.scope = (IF x.request
                THEN [HwPopped(r, x) EXCEPT ![r.response - HwPop(r, x)] = x.request_all]
                ELSE HwPopped(r, x))
  /\ q.fault = FALSE
  /\ q = [sta |-> q.sta, noops |-> q.noops, wait |-> q.wait, local_all |-> q.local_all,
          response |-> q.response, scope |-> q.scope, fault |-> q.fault]

LEMMA ControlCircuitGoes ==
  ASSUME NEW r, NEW x, ~x.reset, ~r.fault, ~HwMistaken(r, x)
  PROVE  HwGoes(HwControl(r, x).registers, r, x)
<1> DEFINE q == HwControl(r, x).registers
<1>1. /\ q.sta = CASE HwStart(r, x) \/ HwTimeout(r, x) -> "noops"
                   [] ~(HwStart(r, x) \/ HwTimeout(r, x)) /\ HwTaken(r, x, "noop")
                        /\ r.noops = 1 -> "request"
                   [] HwTaken(r, x, "request") -> "wait"
                   [] ~HwTaken(r, x, "request") /\ HwSuccess(r, x) -> "normal"
                   [] OTHER -> r.sta
      /\ q.noops = CASE HwStart(r, x) \/ HwTimeout(r, x) -> NoOps
                     [] ~(HwStart(r, x) \/ HwTimeout(r, x)) /\ HwTaken(r, x, "noop")
                          -> r.noops - 1
                     [] OTHER -> r.noops
      /\ q.wait = IF r.sta # "wait" \/ HwSuccess(r, x) \/ HwTimeout(r, x) THEN 0
                  ELSE r.wait + 1
      /\ q.local_all = IF HwStart(r, x) THEN x.local_all ELSE r.local_all
      /\ q.response = r.response + (IF x.request THEN 1 ELSE 0) - HwPop(r, x)
      /\ q.scope = IF x.request
                   THEN [HwPopped(r, x) EXCEPT ![r.response - HwPop(r, x)] = x.request_all]
                   ELSE HwPopped(r, x)
      /\ q.fault = FALSE
      /\ q = [sta |-> q.sta, noops |-> q.noops, wait |-> q.wait, local_all |-> q.local_all,
              response |-> q.response, scope |-> q.scope, fault |-> q.fault]
  <2>1. ~HwMistaken(r, x)
    OBVIOUS
  <2>2. q.sta = CASE HwStart(r, x) \/ HwTimeout(r, x) -> "noops"
                  [] ~(HwStart(r, x) \/ HwTimeout(r, x)) /\ HwTaken(r, x, "noop")
                       /\ r.noops = 1 -> "request"
                  [] HwTaken(r, x, "request") -> "wait"
                  [] ~HwTaken(r, x, "request") /\ HwSuccess(r, x) -> "normal"
                  [] OTHER -> r.sta
    BY <2>1 DEF HwControl, HwStart, HwSuccess, HwTimeout, HwStands, HwKind, HwTaken, HwMistaken
  <2>3. q.noops = CASE HwStart(r, x) \/ HwTimeout(r, x) -> NoOps
                    [] ~(HwStart(r, x) \/ HwTimeout(r, x)) /\ HwTaken(r, x, "noop")
                         -> r.noops - 1
                    [] OTHER -> r.noops
    BY <2>1 DEF HwControl, HwStart, HwSuccess, HwTimeout, HwStands, HwKind, HwTaken, HwMistaken
  <2>4. q.wait = IF r.sta # "wait" \/ HwSuccess(r, x) \/ HwTimeout(r, x) THEN 0
                 ELSE r.wait + 1
    BY <2>1 DEF HwControl, HwStart, HwSuccess, HwTimeout, HwStands, HwKind, HwTaken, HwMistaken
  <2>5. q.local_all = IF HwStart(r, x) THEN x.local_all ELSE r.local_all
    BY <2>1 DEF HwControl, HwStart, HwSuccess, HwTimeout, HwStands, HwKind, HwTaken, HwMistaken
  <2>6. q.response = r.response + (IF x.request THEN 1 ELSE 0) - HwPop(r, x)
    BY <2>1 DEF HwControl, HwStart, HwSuccess, HwTimeout, HwStands, HwKind, HwTaken, HwMistaken,
                HwPop
  <2>7. q.scope = IF x.request
                  THEN [HwPopped(r, x) EXCEPT ![r.response - HwPop(r, x)] = x.request_all]
                  ELSE HwPopped(r, x)
    BY <2>1, ZenonT(40) DEF HwControl, HwStart, HwSuccess, HwTimeout, HwStands, HwKind, HwTaken, HwMistaken,
                HwPop, HwPopped
  <2>8. q.fault = FALSE
    BY <2>1 DEF HwControl, HwStart, HwSuccess, HwTimeout, HwStands, HwKind, HwTaken, HwMistaken
  <2>9. q = [sta |-> q.sta, noops |-> q.noops, wait |-> q.wait, local_all |-> q.local_all,
             response |-> q.response, scope |-> q.scope, fault |-> q.fault]
    <3> DEFINE live == ~x.reset /\ ~r.fault
               start == live /\ r.sta = "normal" /\ x.local
               success == live /\ r.sta = "wait" /\ x.response /\ x.status = 0
               timeout == live /\ r.sta = "wait" /\ r.wait = Timeout - 1 /\ ~success
               pending == live /\ ~start /\ ~timeout
                            /\ (r.sta \in {"noops", "request"} \/ r.response # 0)
               kind == CASE ~pending -> "none"
                         [] pending /\ r.sta = "noops" -> "noop"
                         [] pending /\ r.sta = "request" -> "request"
                         [] OTHER -> "response"
               taken(k) == kind = k /\ pending /\ x.take
               overflow == live /\ x.request /\ r.response = ResponseDepth /\ ~taken("response")
               error == live /\ (overflow \/ (x.take /\ ~pending))
               push == live /\ ~error /\ x.request
               pop == IF taken("response") THEN 1 ELSE 0
               popped == [i \in DOMAIN r.scope |->
                            IF pop = 1 THEN i + 1 \in DOMAIN r.scope /\ r.scope[i + 1]
                            ELSE r.scope[i]]
               sta == CASE start \/ timeout -> "noops"
                        [] ~(start \/ timeout) /\ taken("noop") /\ r.noops = 1 -> "request"
                        [] taken("request") -> "wait"
                        [] ~taken("request") /\ success -> "normal"
                        [] OTHER -> r.sta
               noops == CASE start \/ timeout -> NoOps
                          [] ~(start \/ timeout) /\ taken("noop") -> r.noops - 1
                          [] OTHER -> r.noops
               wait == IF r.sta # "wait" \/ success \/ timeout THEN 0 ELSE r.wait + 1
               all == IF start THEN x.local_all ELSE r.local_all
               response == r.response + (IF push THEN 1 ELSE 0) - pop
               scope == IF push THEN [popped EXCEPT ![r.response - pop] = x.request_all]
                        ELSE popped
    <3>1. ~error
      BY <2>1 DEF HwStart, HwSuccess, HwTimeout, HwStands, HwKind, HwTaken, HwMistaken
    <3>2. q = IF x.reset \/ r.fault \/ error
              THEN [ControlRegisters(ControlReset) EXCEPT !.fault = ~x.reset]
              ELSE [sta |-> sta, noops |-> noops, wait |-> wait, local_all |-> all,
                    response |-> response, scope |-> scope, fault |-> FALSE]
      BY Zenon DEF HwControl
    <3> HIDE DEF q, error, sta, noops, wait, all, response, scope
    <3> QED  BY <3>1, <3>2
  <2> HIDE DEF q
  <2> QED  BY <2>2, <2>3, <2>4, <2>5, <2>6, <2>7, <2>8, <2>9
<1> HIDE DEF q
\* At most one of these happens.
<1>2. /\ HwTaken(r, x, "noop") => r.sta = "noops"
      /\ HwTaken(r, x, "request") => r.sta = "request"
      /\ HwSuccess(r, x) => r.sta = "wait"
      /\ HwTaken(r, x, "request") => ~HwStart(r, x) /\ ~HwTimeout(r, x)
      /\ HwTaken(r, x, "noop") => ~HwStart(r, x) /\ ~HwTimeout(r, x)
      /\ HwSuccess(r, x) => ~HwStart(r, x) /\ ~HwTimeout(r, x)
  BY DEF HwTaken, HwKind, HwSuccess, HwStands, HwStart, HwTimeout
<1>3. q.sta = (IF HwStart(r, x) \/ HwTimeout(r, x) THEN "noops"
               ELSE IF HwTaken(r, x, "noop") /\ r.noops = 1 THEN "request"
               ELSE IF HwTaken(r, x, "request") THEN "wait"
               ELSE IF HwSuccess(r, x) THEN "normal" ELSE r.sta)
  BY <1>1, <1>2
<1>4. q.noops = (IF HwStart(r, x) \/ HwTimeout(r, x) THEN NoOps
                 ELSE IF HwTaken(r, x, "noop") THEN r.noops - 1 ELSE r.noops)
  BY <1>1
<1>5. /\ q.wait = (IF r.sta # "wait" \/ HwSuccess(r, x) \/ HwTimeout(r, x) THEN 0
                   ELSE r.wait + 1)
      /\ q.local_all = (IF HwStart(r, x) THEN x.local_all ELSE r.local_all)
      /\ q.response = r.response + (IF x.request THEN 1 ELSE 0) - HwPop(r, x)
      /\ q.scope = (IF x.request
                    THEN [HwPopped(r, x) EXCEPT ![r.response - HwPop(r, x)] = x.request_all]
                    ELSE HwPopped(r, x))
      /\ q.fault = FALSE
      /\ q = [sta |-> q.sta, noops |-> q.noops, wait |-> q.wait, local_all |-> q.local_all,
              response |-> q.response, scope |-> q.scope, fault |-> q.fault]
  BY <1>1
<1>6. HwGoes(q, r, x)
  BY <1>3, <1>4, <1>5 DEF HwGoes
<1> QED  BY <1>6 DEF q

\* The scopes that are owed, in the shift register.
LEMMA ScopesShift ==
  ASSUME NEW c, ControlOK(c), NEW r, ControlStands(r, c), NEW x, ControlInputOK(x),
         ~Mistaken(c, x),
         NEW p \in Seq(BOOLEAN),
         p = IF Gone(c, x, "response") THEN Tail(c.seq.responses) ELSE c.seq.responses
  PROVE  /\ HwPopped(r, x) = [i \in 0..ResponseDepth - 1 |-> i < Len(p) /\ p[i + 1]]
         /\ r.response - HwPop(r, x) = Len(p)
         /\ x.request => Len(p) < ResponseDepth
<1> DEFINE s == c.seq.responses
           gone == Gone(c, x, "response")
<1>1. /\ s \in Seq(BOOLEAN) /\ r.response = Len(s) /\ Len(s) <= ResponseDepth
      /\ SequencerOK(c.seq) /\ c.owed = Len(s) /\ ResponseDepth \in Nat \ {0}
  BY UartCycleAssumption DEF ControlOK, SequencerOK, ControlStands
<1>2. HwPop(r, x) = IF gone THEN 1 ELSE 0
  BY ControlTakesAlike DEF HwPop
<1>3. gone => s # << >>
  BY <1>1, OfferIs DEF Gone
<1>4. r.scope = [i \in 0..ResponseDepth - 1 |-> i < Len(s) /\ s[i + 1]]
  BY DEF ControlStands
<1>5. HwPopped(r, x) = [i \in DOMAIN r.scope |->
                          IF HwPop(r, x) = 1 THEN i + 1 \in DOMAIN r.scope /\ r.scope[i + 1]
                          ELSE r.scope[i]]
  BY DEF HwPopped
<1>6. x.request /\ ~gone => Len(s) # ResponseDepth
  BY <1>1 DEF Mistaken
<1> HIDE DEF s, gone
<1> DEFINE D == 0..ResponseDepth - 1
<1>7. D = 0..ResponseDepth - 1 /\ DOMAIN r.scope = D
  BY <1>4
<1>8. CASE gone
  <2>1. p = Tail(s) /\ s # << >> /\ HwPop(r, x) = 1
    BY <1>2, <1>3, <1>8 DEF s, gone
  <2>2. Len(s) \in Nat \ {0} /\ Len(p) = Len(s) - 1
    <3>1. s \in Seq(BOOLEAN) /\ s # << >>
      BY <1>1, <2>1
    <3>2. Len(Tail(s)) = Len(s) - 1 /\ Len(s) \in Nat \ {0}
      BY <3>1, HeadTailProperties
    <3> QED  BY <2>1, <3>2
  <2>7. \A i \in 1..Len(p) : p[i] = s[i + 1]
    <3>1. s \in Seq(BOOLEAN) /\ s # << >>
      BY <1>1, <2>1
    <3>2. \A i \in 1..Len(Tail(s)) : Tail(s)[i] = s[i + 1]
      BY <3>1
    <3> QED  BY <2>1, <3>2
  <2>3. ASSUME NEW i \in D
        PROVE  (i + 1 \in D /\ r.scope[i + 1]) = (i < Len(p) /\ p[i + 1])
    <3>1. i \in Nat /\ i + 1 \in Nat
      BY <1>1
    <3>2. CASE i + 1 \in D
      <4>1. r.scope[i + 1] = (i + 1 < Len(s) /\ s[(i + 1) + 1])
        BY <1>4, <3>2
      <4>2. i + 1 < Len(s) <=> i < Len(p)
        <5> DEFINE l == Len(s)
                   m == Len(p)
        <5>1. l \in Nat /\ m = l - 1
          BY <2>2
        <5> SUFFICES i + 1 < l <=> i < m
          OBVIOUS
        <5> HIDE DEF l, m
        <5> QED  BY <3>1, <5>1
      <4>3. i < Len(p) => p[i + 1] = s[(i + 1) + 1]
        <5>1. i < Len(p) => i + 1 \in 1..Len(p)
          BY <2>2, <3>1
        <5> QED  BY <2>7, <5>1
      <4> QED  BY <3>2, <4>1, <4>2, <4>3
    <3>3. CASE i + 1 \notin D
      <4>1. ~(i < Len(p))
        BY <1>1, <2>2, <3>1, <3>3
      <4> QED  BY <3>3, <4>1
    <3> QED  BY <3>2, <3>3
  <2>4. HwPopped(r, x) = [i \in D |-> i + 1 \in D /\ r.scope[i + 1]]
    BY <1>5, <1>7, <2>1
  <2>5. HwPopped(r, x) = [i \in D |-> i < Len(p) /\ p[i + 1]]
    <3> HIDE DEF D
    <3> QED  BY <2>3, <2>4
  <2>6. r.response - HwPop(r, x) = Len(p) /\ Len(p) < ResponseDepth
    BY <1>1, <2>1, <2>2
  <2> QED  BY <2>5, <2>6
<1>9. CASE ~gone
  <2>1. p = s /\ HwPop(r, x) = 0
    BY <1>2, <1>9 DEF s, gone
  <2>2. HwPopped(r, x) = [i \in D |-> r.scope[i]]
    BY <1>5, <1>7, <2>1
  <2>3. HwPopped(r, x) = [i \in D |-> i < Len(p) /\ p[i + 1]]
    <3>1. \A i \in D : r.scope[i] = (i < Len(p) /\ p[i + 1])
      BY <1>4, <2>1, ZenonT(40)
    <3> HIDE DEF D
    <3> QED  BY <2>2, <3>1
  <2>4. r.response - HwPop(r, x) = Len(p)
    <3>1. r.response = Len(p) /\ Len(p) \in Nat /\ HwPop(r, x) = 0
      <4>1. r.response = Len(p) /\ HwPop(r, x) = 0
        BY <1>1, <2>1
      <4>2. Len(p) \in Nat
        OBVIOUS
      <4> QED  BY <4>1, <4>2
    <3> QED  BY <3>1
  <2>5. x.request => Len(p) < ResponseDepth
    BY <1>1, <1>6, <1>9, <2>1
  <2> QED  BY <2>3, <2>4, <2>5
<1> QED  BY <1>8, <1>9

LEMMA ScopePushed ==
  ASSUME NEW p \in Seq(BOOLEAN), NEW all \in BOOLEAN, Len(p) < ResponseDepth
  PROVE  [[i \in 0..ResponseDepth - 1 |-> i < Len(p) /\ p[i + 1]] EXCEPT ![Len(p)] = all]
         = [i \in 0..ResponseDepth - 1 |-> i < Len(Append(p, all)) /\ Append(p, all)[i + 1]]
<1> DEFINE a == Append(p, all)
           D == 0..ResponseDepth - 1
           f == [i \in D |-> i < Len(p) /\ p[i + 1]]
<1>1. /\ Len(a) = Len(p) + 1 /\ Len(p) \in Nat
      /\ \A i \in 1..Len(p) : a[i] = p[i]
      /\ a[Len(p) + 1] = all
  BY AppendProperties
<1>2. [f EXCEPT ![Len(p)] = all] = [i \in D |-> IF i = Len(p) THEN all ELSE f[i]]
  OBVIOUS
<1>3. ASSUME NEW i \in D
      PROVE  (IF i = Len(p) THEN all ELSE f[i]) = (i < Len(a) /\ a[i + 1])
  <2>1. i \in Nat /\ f[i] = (i < Len(p) /\ p[i + 1])
    BY UartCycleAssumption
  <2> HIDE DEF f, a, D
  <2>2. CASE i = Len(p)
    <3>1. i < Len(a) /\ a[i + 1] = all
      BY <1>1, <2>1, <2>2
    <3> QED  BY <2>2, <3>1
  <2>3. CASE i < Len(p)
    <3>1. i < Len(a) /\ a[i + 1] = p[i + 1] /\ i # Len(p)
      BY <1>1, <2>1, <2>3
    <3> QED  BY <2>1, <2>3, <3>1
  <2>4. CASE ~(i = Len(p)) /\ ~(i < Len(p))
    <3>1. ~(i < Len(a))
      BY <1>1, <2>1, <2>4
    <3> QED  BY <2>1, <2>4, <3>1
  <2> QED  BY <2>2, <2>3, <2>4
<1> HIDE DEF f, a, D
<1>4. [i \in D |-> IF i = Len(p) THEN all ELSE f[i]] = [i \in D |-> i < Len(a) /\ a[i + 1]]
  BY <1>3
<1> QED  BY <1>2, <1>4 DEF f, a, D

\* The circuit goes where the control goes.
LEMMA ControlGoesAlike ==
  ASSUME NEW c, ControlOK(c), NEW r, ControlStands(r, c), NEW x, ControlInputOK(x)
  PROVE  HwControl(r, x).registers = ControlRegisters(ControlStep(c, x))
<1> DEFINE q == HwControl(r, x).registers
           n == ControlStep(c, x)
           m == ControlRegisters(n)
           s == c.seq
           v == Sequenced(c, x)
<1>1. r.fault = c.fault /\ c.fault \in BOOLEAN /\ x.reset \in BOOLEAN
  BY DEF ControlStands, ControlOK, ControlInputOK
<1>2. CASE x.reset
  <2>1. n = ControlReset
    BY <1>2 DEF ControlStep
  <2>2. q = [ControlRegisters(ControlReset) EXCEPT !.fault = FALSE]
    BY <1>2 DEF HwControl
  <2> DEFINE k == ControlRegisters(ControlReset)
  <2>3. k = [sta |-> k.sta, noops |-> k.noops, wait |-> k.wait, local_all |-> k.local_all,
             response |-> k.response, scope |-> k.scope, fault |-> FALSE]
    BY DEF ControlRegisters, ControlReset
  <2> HIDE DEF k
  <2>4. [k EXCEPT !.fault = FALSE] = k
    BY <2>3
  <2> QED  BY <2>1, <2>2, <2>4 DEF k
<1>3. CASE ~x.reset /\ (c.fault \/ Mistaken(c, x))
  <2>1. c.fault \/ ControlSignals(c, x).error
    BY <1>3, ControlShows
  <2>2. n = [ControlReset EXCEPT !.fault = TRUE]
    BY <1>3, <2>1 DEF ControlStep
  <2>3. q = [ControlRegisters(ControlReset) EXCEPT !.fault = TRUE]
    <3>1. CASE c.fault
      BY <1>1, <1>3, <3>1 DEF HwControl
    <3>2. CASE ~c.fault /\ Mistaken(c, x)
      <4>1. HwMistaken(r, x)
        BY <3>2, ControlTakesAlike
      <4> QED  BY <1>1, <1>3, <3>2, <4>1
                  DEF HwControl, HwStart, HwSuccess, HwTimeout, HwStands, HwKind, HwTaken,
                      HwMistaken
    <3> QED  BY <1>3, <3>1, <3>2
  <2> DEFINE k == ControlRegisters(ControlReset)
             a == [ControlReset EXCEPT !.fault = TRUE]
             b == ControlRegisters(a)
  <2>4. /\ k = [sta |-> k.sta, noops |-> k.noops, wait |-> k.wait, local_all |-> k.local_all,
                response |-> k.response, scope |-> k.scope, fault |-> k.fault]
        /\ b = [sta |-> b.sta, noops |-> b.noops, wait |-> b.wait, local_all |-> b.local_all,
                response |-> b.response, scope |-> b.scope, fault |-> b.fault]
    BY DEF ControlRegisters
  <2>5. a.seq = ControlReset.seq /\ a.owed = ControlReset.owed /\ a.fault = TRUE
    BY DEF ControlReset
  <2> HIDE DEF a
  <2>6. /\ k.sta = b.sta /\ k.noops = b.noops /\ k.wait = b.wait /\ k.local_all = b.local_all
        /\ k.response = b.response /\ k.scope = b.scope /\ b.fault = TRUE
    BY <2>5 DEF ControlRegisters
  <2> HIDE DEF k, b
  <2>7. [k EXCEPT !.fault = TRUE] = b
    BY <2>4, <2>6
  <2> QED  BY <2>2, <2>3, <2>7 DEF k, a, b
<1>4. CASE ~x.reset /\ ~c.fault /\ ~Mistaken(c, x)
  <2>1. HwGoes(q, r, x)
    <3>1. ~HwMistaken(r, x)
      BY <1>4, ControlTakesAlike
    <3> QED  BY <1>1, <1>4, <3>1, ControlCircuitGoes
  <2>2. /\ n.fault = FALSE
        /\ n.owed = c.owed + (IF x.request THEN 1 ELSE 0)
                      - (IF Gone(c, x, "response") THEN 1 ELSE 0)
    BY <1>4, ControlStepIs
  <2>3. /\ n.seq.phase = v.phase /\ n.seq.noops = v.noops /\ n.seq.left = v.left
        /\ n.seq.all_streams = v.all_streams
        /\ n.seq.responses = IF x.request THEN Append(v.responses, x.request_all)
                             ELSE v.responses
        /\ SequencerOK(v)
    BY <1>4, SequencerGoes
  <2>4. /\ v.phase = IF Begins(c, x) \/ RunsLate(c, x) THEN "noops"
                     ELSE IF Gone(c, x, "noop") /\ s.noops = 1 THEN "request"
                     ELSE IF Gone(c, x, "request") THEN "wait"
                     ELSE IF Succeeds(c, x) THEN "normal" ELSE s.phase
        /\ v.noops = IF Begins(c, x) \/ RunsLate(c, x) THEN NoOps
                     ELSE IF Gone(c, x, "noop") THEN s.noops - 1 ELSE s.noops
        /\ v.all_streams = IF Begins(c, x) THEN x.local_all ELSE s.all_streams
        /\ v.left = IF Begins(c, x) \/ RunsLate(c, x) \/ Succeeds(c, x) THEN 0
                    ELSE IF Gone(c, x, "request") THEN Timeout
                    ELSE IF s.phase = "wait" THEN s.left - 1 ELSE s.left
        /\ v.responses = IF Gone(c, x, "response") THEN Tail(s.responses) ELSE s.responses
    <3>1. SequencedAs(v, c, x)
      BY SequencedIs
    <3> QED  BY <3>1 DEF SequencedAs, SequencerIs
  <2>5. /\ HwStart(r, x) = Begins(c, x) /\ HwSuccess(r, x) = Succeeds(c, x)
        /\ HwTimeout(r, x) = RunsLate(c, x)
        /\ HwTaken(r, x, "noop") = Gone(c, x, "noop")
        /\ HwTaken(r, x, "request") = Gone(c, x, "request")
        /\ HwTaken(r, x, "response") = Gone(c, x, "response")
    BY ControlSeesAlike, ControlTakesAlike
  <2>6. /\ r.sta = s.phase /\ r.noops = (IF s.phase = "noops" THEN s.noops ELSE 0)
        /\ r.wait = (IF s.phase = "wait" THEN Timeout - s.left ELSE 0)
        /\ r.local_all = s.all_streams /\ r.response = c.owed
    BY DEF ControlStands
  <2>7. /\ SequencerOK(s) /\ s.phase \in {"normal", "noops", "request", "wait"}
        /\ s.noops \in Int /\ s.left \in Int /\ NoOps \in Int /\ Timeout \in Int
        /\ x.request \in BOOLEAN /\ x.request_all \in BOOLEAN
    BY UartCycleAssumption DEF ControlOK, SequencerOK, R!Phases, ControlInputOK
  <2>8. /\ Gone(c, x, "noop") => s.phase = "noops"
        /\ Gone(c, x, "request") => s.phase = "request"
        /\ Begins(c, x) => s.phase = "normal"
        /\ RunsLate(c, x) => s.phase = "wait"
        /\ Succeeds(c, x) => s.phase = "wait"
        /\ s.phase = "noops" => ~Begins(c, x) /\ ~RunsLate(c, x) /\ ~Succeeds(c, x)
    <3>1. /\ R!Offer(s) = "noop" => s.phase = "noops"
          /\ R!Offer(s) = "request" => s.phase = "request"
      BY <2>7, OfferIs
    <3> QED  BY <2>7, <3>1 DEF Gone, Begins, RunsLate, Succeeds
  <2>9. m = [sta |-> m.sta, noops |-> m.noops, wait |-> m.wait, local_all |-> m.local_all,
             response |-> m.response, scope |-> m.scope, fault |-> m.fault]
    BY DEF ControlRegisters
  <2>10. /\ m.sta = n.seq.phase
         /\ m.noops = (IF n.seq.phase = "noops" THEN n.seq.noops ELSE 0)
         /\ m.wait = (IF n.seq.phase = "wait" THEN Timeout - n.seq.left ELSE 0)
         /\ m.local_all = n.seq.all_streams /\ m.response = n.owed /\ m.fault = n.fault
         /\ m.scope = [i \in 0..ResponseDepth - 1 |->
                         i < Len(n.seq.responses) /\ n.seq.responses[i + 1]]
    BY DEF ControlRegisters
  <2> DEFINE p == v.responses
  <2>11. p \in Seq(BOOLEAN)
    BY <2>3 DEF SequencerOK
  <2> HIDE DEF q, n, m, v
  <2>12. q.sta = m.sta
    <3>1. Gone(c, x, "noop") => r.noops = s.noops
      BY <2>6, <2>8
    <3> QED  BY <2>1, <2>3, <2>4, <2>5, <2>6, <2>10, <3>1 DEF HwGoes
  <2>13. q.noops = m.noops
    <3>1. q.noops = IF Begins(c, x) \/ RunsLate(c, x) THEN NoOps
                    ELSE IF Gone(c, x, "noop") THEN r.noops - 1 ELSE r.noops
      BY <2>1, <2>5 DEF HwGoes
    <3>2. m.noops = IF v.phase = "noops" THEN v.noops ELSE 0
      BY <2>3, <2>10
    <3>3. CASE Begins(c, x) \/ RunsLate(c, x)
      BY <2>4, <3>1, <3>2, <3>3
    <3>4. CASE ~Begins(c, x) /\ ~RunsLate(c, x) /\ Gone(c, x, "noop")
      <4>1. r.noops = s.noops /\ s.phase = "noops" /\ v.noops = s.noops - 1
        BY <2>4, <2>6, <2>8, <3>4
      <4>2. v.phase = IF s.noops = 1 THEN "request" ELSE "noops"
        <5>1. ~Gone(c, x, "request") /\ ~Succeeds(c, x)
          BY <2>8, <4>1
        <5> QED  BY <2>4, <3>4, <4>1, <5>1
      <4>3. q.noops = s.noops - 1
        BY <3>1, <3>4, <4>1
      <4>4. m.noops = IF s.noops = 1 THEN 0 ELSE s.noops - 1
        BY <3>2, <4>1, <4>2
      <4> QED  BY <2>7, <4>3, <4>4
    <3>5. CASE ~Begins(c, x) /\ ~RunsLate(c, x) /\ ~Gone(c, x, "noop")
      <4>1. v.phase = "noops" <=> s.phase = "noops"
        BY <2>4, <2>8, <3>5
      <4>2. q.noops = r.noops /\ v.noops = s.noops
        BY <2>4, <3>1, <3>5
      <4> QED  BY <2>6, <3>2, <4>1, <4>2
    <3> QED  BY <3>3, <3>4, <3>5
  <2>14. q.wait = m.wait
    <3>1. q.wait = IF s.phase # "wait" \/ Succeeds(c, x) \/ RunsLate(c, x) THEN 0
                   ELSE r.wait + 1
      BY <2>1, <2>5, <2>6 DEF HwGoes
    <3>2. m.wait = IF v.phase = "wait" THEN Timeout - v.left ELSE 0
      BY <2>3, <2>10
    <3>3. CASE s.phase = "wait" /\ ~Succeeds(c, x) /\ ~RunsLate(c, x)
      <4>1. ~Begins(c, x) /\ ~Gone(c, x, "noop") /\ ~Gone(c, x, "request")
        BY <2>8, <3>3
      <4>2. v.phase = "wait" /\ v.left = s.left - 1
        BY <2>4, <3>3, <4>1
      <4>3. q.wait = Timeout - s.left + 1 /\ m.wait = Timeout - (s.left - 1)
        BY <2>6, <3>1, <3>2, <3>3, <4>2
      <4>4. Timeout - s.left + 1 = Timeout - (s.left - 1)
        BY <2>7
      <4> QED  BY <4>3, <4>4
    <3>4. CASE s.phase = "wait" /\ (Succeeds(c, x) \/ RunsLate(c, x))
      <4>1. v.phase # "wait"
        BY <2>4, <2>8, <3>4
      <4> QED  BY <3>1, <3>2, <3>4, <4>1
    <3>5. CASE s.phase # "wait"
      <4>1. q.wait = 0 /\ ~RunsLate(c, x) /\ ~Succeeds(c, x)
        BY <2>8, <3>1, <3>5
      <4>2. v.phase = "wait" => Gone(c, x, "request") /\ ~Begins(c, x)
        BY <2>4, <3>5, <4>1
      <4>3. v.phase = "wait" => v.left = Timeout
        BY <2>4, <4>1, <4>2
      <4> QED  BY <2>7, <3>2, <4>1, <4>3
    <3> QED  BY <3>3, <3>4, <3>5
  <2>15. q.local_all = m.local_all /\ q.fault = m.fault
    BY <2>1, <2>2, <2>3, <2>4, <2>5, <2>6, <2>10 DEF HwGoes
  <2>16. q.response = m.response
    <3>1. q.response = c.owed + (IF x.request THEN 1 ELSE 0)
                         - (IF Gone(c, x, "response") THEN 1 ELSE 0)
      BY <2>1, <2>5, <2>6 DEF HwGoes, HwPop
    <3> QED  BY <2>2, <2>10, <3>1
  <2>17. q.scope = m.scope
    <3>1. /\ HwPopped(r, x) = [i \in 0..ResponseDepth - 1 |-> i < Len(p) /\ p[i + 1]]
          /\ r.response - HwPop(r, x) = Len(p)
          /\ x.request => Len(p) < ResponseDepth
      BY <1>4, <2>4, <2>11, ScopesShift
    <3>2. CASE x.request
      <4>1. q.scope = [HwPopped(r, x) EXCEPT ![r.response - HwPop(r, x)] = x.request_all]
        BY <2>1, <3>2 DEF HwGoes
      <4>2. m.scope = [i \in 0..ResponseDepth - 1 |->
                         i < Len(Append(p, x.request_all)) /\ Append(p, x.request_all)[i + 1]]
        BY <2>3, <2>10, <3>2
      <4> HIDE DEF p
      <4>3. [[i \in 0..ResponseDepth - 1 |-> i < Len(p) /\ p[i + 1]]
               EXCEPT ![Len(p)] = x.request_all]
            = [i \in 0..ResponseDepth - 1 |->
                 i < Len(Append(p, x.request_all)) /\ Append(p, x.request_all)[i + 1]]
        BY <2>7, <2>11, <3>1, <3>2, ScopePushed
      <4> QED  BY <3>1, <4>1, <4>2, <4>3
    <3>3. CASE ~x.request
      BY <2>1, <2>3, <2>10, <3>1, <3>3 DEF HwGoes
    <3> QED  BY <3>2, <3>3
  <2>18. q = [sta |-> q.sta, noops |-> q.noops, wait |-> q.wait, local_all |-> q.local_all,
              response |-> q.response, scope |-> q.scope, fault |-> q.fault]
    BY <2>1 DEF HwGoes
  <2>19. q = m
    BY <2>9, <2>12, <2>13, <2>14, <2>15, <2>16, <2>17, <2>18
  <2> QED  BY <2>19 DEF q, m, n
<1> QED  BY <1>1, <1>2, <1>3, <1>4

LEMMA ControlAlike == ControlOK(control) => ControlInStep
<1> SUFFICES ASSUME ControlOK(control), NEW x \in WithReset(ControlInputs)
             PROVE  HwControl(ControlRegisters(control), x)
                    = [signals |-> ControlSignals(control, x),
                       registers |-> ControlRegisters(ControlStep(control, x))]
  BY DEF ControlInStep
<1> DEFINE r == ControlRegisters(control)
           hw == HwControl(r, x)
<1>1. ControlInputOK(x)
  BY ControlInputsOK
<1>2. ControlStands(r, control)
  BY ControlRegistersStand
<1>3. hw = [signals |-> hw.signals, registers |-> hw.registers]
  BY DEF HwControl
<1> HIDE DEF r
<1>4. hw.signals = ControlSignals(control, x)
  BY <1>1, <1>2, ControlShowsAlike
<1>5. hw.registers = ControlRegisters(ControlStep(control, x))
  BY <1>1, <1>2, ControlGoesAlike
<1> HIDE DEF hw
<1> QED  BY <1>3, <1>4, <1>5 DEF hw, r

LEMMA ControlContinues == ControlOK(control) /\ ControlEdge => ControlOK(control')
<1> SUFFICES ASSUME ControlOK(control), NEW x \in ControlInputs, control' = ControlStep(control, x)
             PROVE  ControlOK(control')
  BY DEF ControlEdge
<1>1. ControlInputOK(x)
  <2>1. x \in WithReset(ControlInputs)
    BY DEF WithReset
  <2> QED  BY <2>1, ControlInputsOK
<1> QED  BY <1>1, ControlStays

-------------------------------------------------------------------------------
(* All of them.                                                                *)

\* What the parts keep; each leaves the state of the others alone.
MessagesInv ==
  /\ ArbiterOK(arbiter) /\ EndsAlone
  /\ SourceOK(source) /\ RxOK(rxpath) /\ ControlOK(control)

LEMMA MessagesStart == MessagesInit => MessagesInv
<1> SUFFICES ASSUME MessagesInit
             PROVE  MessagesInv
  OBVIOUS
<1>1. ArbiterOK(arbiter)
  BY ArbiterStarts DEF MessagesInit, ArbiterInit
<1>2. EndsAlone
  BY AloneStarts DEF MessagesInit, EndsAlone
<1>3. SourceOK(source) /\ RxOK(rxpath) /\ ControlOK(control)
  BY SourceStarts, RxStarts, ControlStarts DEF MessagesInit, AloneInit
<1> QED  BY <1>1, <1>2, <1>3 DEF MessagesInv

LEMMA MessagesContinue == MessagesInv /\ [MessagesNext]_vars => MessagesInv'
<1> SUFFICES ASSUME MessagesInv, [MessagesNext]_vars
             PROVE  MessagesInv'
  OBVIOUS
<1> USE DEF MessagesInv
<1>1. CASE ArbiterPart
  <2>1. ArbiterOK(arbiter') /\ UNCHANGED <<alone, source, rxpath, control>>
    BY <1>1, ArbiterContinues DEF ArbiterPart, basicVars, UartIdle, aloneVars
  <2> QED  BY <2>1 DEF EndsAlone
<1>2. CASE PeersPart
  <2>1. UNCHANGED <<arbiter, alone, source, rxpath, control>>
    BY <1>2 DEF PeersPart, BasicNext, PeerEdge, UartIdle, aloneVars
  <2> QED  BY <2>1 DEF EndsAlone
<1>3. CASE AlonePart
  <2>1. EndsAlone' /\ UNCHANGED <<arbiter, source, rxpath, control>>
    BY <1>3, AloneContinues DEF AlonePart, UartIdle, aloneVars
  <2> QED  BY <2>1
<1>4. CASE SourcePart
  <2>1. SourceOK(source') /\ UNCHANGED <<arbiter, alone, rxpath, control>>
    BY <1>4, SourceContinues DEF SourcePart, SourceEdge, BasicIdle, basicVars
  <2> QED  BY <2>1 DEF EndsAlone
<1>5. CASE RxPart
  <2>1. RxOK(rxpath') /\ UNCHANGED <<arbiter, alone, source, control>>
    BY <1>5, RxContinues DEF RxPart, RxEdge, BasicIdle, basicVars
  <2> QED  BY <2>1 DEF EndsAlone
<1>6. CASE ControlPart
  <2>1. ControlOK(control') /\ UNCHANGED <<arbiter, alone, source, rxpath>>
    BY <1>6, ControlContinues DEF ControlPart, ControlEdge, BasicIdle, basicVars
  <2> QED  BY <2>1 DEF EndsAlone
<1>7. CASE PortsPart
  <2>1. UNCHANGED <<arbiter, alone, source, rxpath, control>>
    BY <1>7 DEF PortsPart, BasicIdle, basicVars, aloneVars
  <2> QED  BY <2>1 DEF EndsAlone
<1>8. CASE UNCHANGED vars
  <2>1. UNCHANGED <<arbiter, alone, source, rxpath, control>>
    BY <1>8 DEF vars, basicVars, aloneVars
  <2> QED  BY <2>1 DEF EndsAlone
<1> QED  BY <1>1, <1>2, <1>3, <1>4, <1>5, <1>6, <1>7, <1>8 DEF MessagesNext

LEMMA MessagesAlike == MessagesInv => HardwareInStep
BY ArbiterAlike, BasicAlike, SourceAlike, RxAlike, ControlAlike DEF MessagesInv, HardwareInStep

\* Every block in hardware does what its reference does, from any state the
\* reference reaches and with any inputs at the edge: dl_message_arbiter.v serves
\* the same source, dl_basic_message_control.v says and remembers the same, and
\* source, receive path and reset control of a UART port show the same signals.
THEOREM HardwareAlwaysInStep == MessagesSpec => []HardwareInStep
<1>1. MessagesInit => MessagesInv
  BY MessagesStart
<1>2. MessagesInv /\ [MessagesNext]_vars => MessagesInv'
  BY MessagesContinue
<1>3. MessagesInv => HardwareInStep
  BY MessagesAlike
<1> QED  BY <1>1, <1>2, <1>3, PTL DEF MessagesSpec
===============================================================================
