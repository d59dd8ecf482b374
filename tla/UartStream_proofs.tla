-------------------------- MODULE UartStream_proofs ---------------------------
(* For every modulus, size of the buffers, length of the run-out and number of   *)
(* messages under way: as long as resets are answered in time, no credit of the  *)
(* stream is lost or invented across a reset, and no message overflows a buffer. *)
EXTENDS UartStream, FiniteSetTheorems, FunctionTheorems, SequenceTheorems,
        TLAPS

-------------------------------------------------------------------------------
(* The counters modulo Modulus.                                                  *)

\* How far the counter v is ahead of t.
Ahead(v, t) == (v - t) % Modulus

\* There are at least two counter values, and a whole buffer is one of them.
LEMMA CountersAre ==
  /\ Modulus \in Nat /\ Modulus >= 2 /\ Counters = 0..(Modulus - 1)
  /\ RxDepth \in Nat /\ RxDepth >= 1 /\ RxDepth < Modulus /\ RxDepth \in Counters
  /\ 0 \in Counters /\ TxDepth \in Nat
BY ModulusAssumption, DepthAssumption DEF Counters

\* The distance of two counters, without the modulus.
LEMMA AheadIs ==
  ASSUME NEW v \in Counters, NEW t \in Counters
  PROVE  Ahead(v, t) = IF v >= t THEN v - t ELSE v - t + Modulus
<1>1. v \in Int /\ t \in Int /\ 0 <= v /\ v < Modulus /\ 0 <= t /\ t < Modulus /\ Modulus \in Nat
  BY CountersAre
<1>2. CASE v >= t
  BY <1>1, <1>2 DEF Ahead
<1>3. CASE ~(v >= t)
  <2>1. (v - t) % Modulus = v - t + Modulus
    BY <1>1, <1>3
  <2> QED  BY <1>3, <2>1 DEF Ahead
<1> QED  BY <1>2, <1>3

\* It is a counter value itself, and nothing for a counter and itself.
LEMMA AheadType ==
  ASSUME NEW v \in Counters, NEW t \in Counters
  PROVE  /\ Ahead(v, t) \in Nat /\ Ahead(v, t) < Modulus
         /\ Ahead(v, v) = 0 /\ Ahead(v, 0) = v
<1>1. v \in Int /\ t \in Int /\ 0 <= v /\ v < Modulus /\ 0 <= t /\ t < Modulus /\ Modulus \in Nat
  BY CountersAre
<1>2. Ahead(v, v) = 0 /\ Ahead(v, 0) = v
  BY <1>1, AheadIs, CountersAre
<1> QED  BY <1>1, <1>2, AheadIs

\* Adding to a counter stays in range.
LEMMA AddType ==
  ASSUME NEW t \in Counters, NEW n \in Nat, n < Modulus
  PROVE  /\ (t + n) % Modulus \in Counters
         /\ (t + n) % Modulus = IF t + n < Modulus THEN t + n ELSE t + n - Modulus
<1>1. t \in Int /\ 0 <= t /\ t < Modulus /\ Modulus \in Nat /\ n \in Int /\ 0 <= n
  BY CountersAre
<1>2. CASE t + n < Modulus
  BY <1>1, <1>2, CountersAre
<1>3. CASE ~(t + n < Modulus)
  <2>1. (t + n) % Modulus = t + n - Modulus
    BY <1>1, <1>3
  <2> QED  BY <1>1, <1>3, <2>1, CountersAre
<1> QED  BY <1>2, <1>3

\* A counter that moves on by n leaves n less to what is n or more ahead of it.
LEMMA AheadAfterSending ==
  ASSUME NEW v \in Counters, NEW t \in Counters, NEW n \in Nat, n <= Ahead(v, t)
  PROVE  Ahead(v, (t + n) % Modulus) = Ahead(v, t) - n
<1>1. v \in Int /\ t \in Int /\ 0 <= v /\ v < Modulus /\ 0 <= t /\ t < Modulus /\ Modulus \in Nat
  BY CountersAre
<1>2. Ahead(v, t) \in Nat /\ Ahead(v, t) < Modulus
  BY AheadType
<1>3. n < Modulus
  BY <1>1, <1>2
<1> DEFINE u == (t + n) % Modulus
<1>4. u \in Counters /\ u = IF t + n < Modulus THEN t + n ELSE t + n - Modulus
  BY <1>3, AddType
<1> HIDE DEF u
<1>5. Ahead(v, u) = IF v >= u THEN v - u ELSE v - u + Modulus
  BY <1>4, AheadIs
<1>6. Ahead(v, t) = IF v >= t THEN v - t ELSE v - t + Modulus
  BY AheadIs
<1>7. Ahead(v, u) = Ahead(v, t) - n
  BY <1>1, <1>4, <1>5, <1>6
<1> QED  BY <1>7 DEF u

\* A counter that moves on by one is one further ahead, up to a whole turn.
LEMMA AheadAfterReading ==
  ASSUME NEW v \in Counters, NEW t \in Counters, Ahead(v, t) < Modulus - 1
  PROVE  Ahead((v + 1) % Modulus, t) = Ahead(v, t) + 1
<1>1. v \in Int /\ t \in Int /\ 0 <= v /\ v < Modulus /\ 0 <= t /\ t < Modulus /\ Modulus \in Nat
  BY CountersAre
<1> DEFINE u == (v + 1) % Modulus
<1>2. u \in Counters /\ u = IF v + 1 < Modulus THEN v + 1 ELSE v + 1 - Modulus
  BY AddType, CountersAre
<1> HIDE DEF u
<1>3. Ahead(u, t) = IF u >= t THEN u - t ELSE u - t + Modulus
  BY <1>2, AheadIs
<1>4. Ahead(v, t) = IF v >= t THEN v - t ELSE v - t + Modulus
  BY AheadIs
<1>5. Ahead(u, t) = Ahead(v, t) + 1
  BY <1>1, <1>2, <1>3, <1>4
<1> QED  BY <1>5 DEF u

-------------------------------------------------------------------------------
(* The messages of one direction.                                                *)

Word == Words \cup {0}

Messages == [kind : {"transport"}, words : {s \in Seq(Word) : Len(s) <= MaxWords}]
              \cup [kind : {"credit"}, value : Counters]
              \cup [kind : {"request", "response"}, all : BOOLEAN]

\* No message of the kind; exactly one; none but responses; and behind a request
\* none but responses.
None(w, kind) == \A i \in DOMAIN w : w[i].kind # kind
One(w, kind) == \E i \in DOMAIN w : /\ w[i].kind = kind
                                    /\ \A j \in DOMAIN w : w[j].kind = kind => j = i
OnlyResponses(w) == \A i \in DOMAIN w : w[i].kind = "response"
Behind(w) == \A i, j \in DOMAIN w : w[i].kind = "request" /\ i < j => w[j].kind = "response"

\* What appending and receiving do to the messages under way.
LEMMA Appended ==
  ASSUME NEW w \in Seq(Messages), NEW m \in Messages
  PROVE  /\ Append(w, m) \in Seq(Messages)
         /\ DOMAIN w = 1..Len(w) /\ Len(w) \in Nat
         /\ DOMAIN Append(w, m) = 1..(Len(w) + 1)
         /\ \A i \in DOMAIN w : Append(w, m)[i] = w[i]
         /\ Append(w, m)[Len(w) + 1] = m
BY AppendProperties, LenProperties

LEMMA Received ==
  ASSUME NEW w \in Seq(Messages), w # << >>
  PROVE  /\ Tail(w) \in Seq(Messages) /\ Head(w) \in Messages /\ Head(w) = w[1]
         /\ DOMAIN w = 1..Len(w) /\ Len(w) \in Nat /\ Len(w) >= 1
         /\ DOMAIN Tail(w) = 1..(Len(w) - 1)
         /\ \A i \in DOMAIN Tail(w) : Tail(w)[i] = w[i + 1]
<1>1. Tail(w) \in Seq(Messages) /\ Head(w) \in Messages /\ Head(w) = w[1] /\ Len(Tail(w)) = Len(w) - 1
      /\ \A i \in 1..Len(Tail(w)) : Tail(w)[i] = w[i + 1]
  BY HeadTailProperties
<1>2. DOMAIN w = 1..Len(w) /\ Len(w) \in Nat /\ Len(w) >= 1
  BY LenProperties, EmptySeq
<1> QED  BY <1>1, <1>2, LenProperties

\* Messages of one kind under way: after one more was sent.
LEMMA KindsAppended ==
  ASSUME NEW w \in Seq(Messages), NEW m \in Messages
  PROVE  /\ \A k : None(Append(w, m), k) <=> None(w, k) /\ m.kind # k
         /\ \A k : One(w, k) /\ m.kind # k => One(Append(w, m), k)
         /\ \A k : None(w, k) /\ m.kind = k => One(Append(w, m), k)
         /\ OnlyResponses(w) /\ m.kind = "response" => OnlyResponses(Append(w, m))
         /\ Behind(w) /\ m.kind = "response" => Behind(Append(w, m))
         /\ None(w, "request") => Behind(Append(w, m))
<1> DEFINE u == Append(w, m)
           n == Len(w)
<1>1. /\ n \in Nat /\ DOMAIN w = 1..n /\ DOMAIN u = 1..(n + 1)
      /\ \A i \in 1..n : u[i] = w[i]
      /\ u[n + 1] = m
  BY Appended
<1> HIDE DEF u, n
<1>2. DOMAIN u = DOMAIN w \cup {n + 1} /\ n + 1 \notin DOMAIN w
  BY <1>1
<1>3. \A k : None(u, k) <=> None(w, k) /\ m.kind # k
  BY <1>1, <1>2, Zenon DEF None
<1>4. ASSUME NEW k, One(w, k), m.kind # k  PROVE One(u, k)
  <2>1. PICK i \in DOMAIN w : w[i].kind = k /\ \A j \in DOMAIN w : w[j].kind = k => j = i
    BY <1>4 DEF One
  <2>2. i \in DOMAIN u /\ u[i].kind = k
    BY <1>1, <1>2, <2>1
  <2>3. \A j \in DOMAIN u : u[j].kind = k => j = i
    BY <1>1, <1>2, <1>4, <2>1
  <2> QED  BY <2>2, <2>3 DEF One
<1>5. ASSUME NEW k, None(w, k), m.kind = k  PROVE One(u, k)
  <2>1. n + 1 \in DOMAIN u /\ u[n + 1].kind = k
    BY <1>1, <1>2, <1>5
  <2>2. \A j \in DOMAIN u : u[j].kind = k => j = n + 1
    BY <1>1, <1>2, <1>5 DEF None
  <2> QED  BY <2>1, <2>2 DEF One
<1>6. OnlyResponses(w) /\ m.kind = "response" => OnlyResponses(u)
  BY <1>1, <1>2 DEF OnlyResponses
<1>7. Behind(w) /\ m.kind = "response" => Behind(u)
  BY <1>1, <1>2 DEF Behind
<1>8. None(w, "request") => Behind(u)
  BY <1>1, <1>2 DEF None, Behind
<1> QED  BY <1>3, <1>4, <1>5, <1>6, <1>7, <1>8 DEF u

\* And after the first was received.
LEMMA KindsReceived ==
  ASSUME NEW w \in Seq(Messages), w # << >>
  PROVE  /\ \A k : None(w, k) <=> Head(w).kind # k /\ None(Tail(w), k)
         /\ \A k : One(w, k) /\ Head(w).kind # k => One(Tail(w), k)
         /\ \A k : One(w, k) /\ Head(w).kind = k => None(Tail(w), k)
         /\ OnlyResponses(w) => Head(w).kind = "response" /\ OnlyResponses(Tail(w))
         /\ Behind(w) => Behind(Tail(w))
         /\ Behind(w) /\ Head(w).kind = "request" => OnlyResponses(Tail(w))
<1> DEFINE u == Tail(w)
           n == Len(w)
<1>1. /\ n \in Nat /\ n >= 1 /\ DOMAIN w = 1..n /\ DOMAIN u = 1..(n - 1)
      /\ \A i \in 1..(n - 1) : u[i] = w[i + 1]
      /\ Head(w) = w[1]
  BY Received
<1> HIDE DEF u, n
<1>2. \A i \in DOMAIN w : i = 1 \/ (i - 1 \in DOMAIN u /\ u[i - 1] = w[i])
  BY <1>1
<1>3. /\ 1 \in DOMAIN w
      /\ \A i \in DOMAIN u : i \in Nat /\ i + 1 \in DOMAIN w /\ i + 1 # 1 /\ u[i] = w[i + 1]
  BY <1>1
<1>4. \A k : None(w, k) <=> Head(w).kind # k /\ None(u, k)
  <2> SUFFICES ASSUME NEW k PROVE None(w, k) <=> Head(w).kind # k /\ None(u, k)
    OBVIOUS
  <2>1. None(w, k) => Head(w).kind # k /\ None(u, k)
    BY <1>1, <1>3 DEF None
  <2>2. Head(w).kind # k /\ None(u, k) => None(w, k)
    BY <1>1, <1>2 DEF None
  <2> QED  BY <2>1, <2>2
<1>5. ASSUME NEW k, One(w, k), Head(w).kind # k  PROVE One(u, k)
  <2>1. PICK i \in DOMAIN w : w[i].kind = k /\ \A j \in DOMAIN w : w[j].kind = k => j = i
    BY <1>5 DEF One
  <2>2. i \in Nat /\ i # 1
    BY <1>1, <1>5, <2>1
  <2>3. i - 1 \in DOMAIN u /\ u[i - 1].kind = k
    BY <1>2, <2>1, <2>2
  <2>4. \A j \in DOMAIN u : u[j].kind = k => j = i - 1
    <3> SUFFICES ASSUME NEW j \in DOMAIN u, u[j].kind = k  PROVE j = i - 1
      OBVIOUS
    <3>1. j \in Nat /\ j + 1 \in DOMAIN w /\ w[j + 1].kind = k
      BY <1>3
    <3> QED  BY <2>1, <2>2, <3>1
  <2> QED  BY <2>3, <2>4 DEF One
<1>6. ASSUME NEW k, One(w, k), Head(w).kind = k  PROVE None(u, k)
  <2>1. PICK i \in DOMAIN w : w[i].kind = k /\ \A j \in DOMAIN w : w[j].kind = k => j = i
    BY <1>6 DEF One
  <2>2. i = 1
    BY <1>1, <1>3, <1>6, <2>1
  <2> QED  BY <1>3, <2>1, <2>2 DEF None
<1>7. OnlyResponses(w) => Head(w).kind = "response" /\ OnlyResponses(u)
  BY <1>1, <1>3 DEF OnlyResponses
<1>8. Behind(w) => Behind(u)
  <2> SUFFICES ASSUME Behind(w), NEW i \in DOMAIN u, NEW j \in DOMAIN u,
                      u[i].kind = "request", i < j
               PROVE  u[j].kind = "response"
    BY DEF Behind
  <2>1. i + 1 \in DOMAIN w /\ j + 1 \in DOMAIN w /\ i + 1 < j + 1 /\ u[i] = w[i + 1] /\ u[j] = w[j + 1]
    BY <1>1, <1>3
  <2> QED  BY <2>1 DEF Behind
<1>9. Behind(w) /\ Head(w).kind = "request" => OnlyResponses(u)
  <2> SUFFICES ASSUME Behind(w), Head(w).kind = "request", NEW j \in DOMAIN u
               PROVE  u[j].kind = "response"
    BY DEF OnlyResponses
  <2>1. j + 1 \in DOMAIN w /\ 1 < j + 1 /\ 1 \in DOMAIN w /\ u[j] = w[j + 1]
    BY <1>1, <1>3
  <2> QED  BY <1>1, <2>1 DEF Behind
<1> QED  BY <1>4, <1>5, <1>6, <1>7, <1>8, <1>9 DEF u

-------------------------------------------------------------------------------
(* The words under way that will be taken.                                       *)

\* An end in the phase "wait" takes nothing ahead of the response it waits for: the
\* positions of the messages that will be heeded.
Heeded(w, phase) ==
  {i \in DOMAIN w : phase = "wait" => \E k \in 1..(i - 1) : w[k].kind = "response"}

Size(m) == IF m.kind = "transport" THEN Len(m.words) ELSE 0

\* Each word is a message and a place in it.
Holds(m, k) == m.kind = "transport" /\ k <= Len(m.words)
Cells(w, at) == {c \in at \X (1..MaxWords) : Holds(w[c[1]], c[2])}

WordsHeeded(w, phase) == Cardinality(Cells(w, Heeded(w, phase)))

\* A message carries as many words as it has places filled.
LEMMA SizeIs ==
  ASSUME NEW m \in Messages
  PROVE  /\ Size(m) \in Nat /\ Size(m) <= MaxWords
         /\ \A k \in 1..MaxWords : Holds(m, k) <=> k <= Size(m)
<1>1. MaxWords \in Nat
  BY MaxWordsAssumption
<1>2. CASE m.kind = "transport"
  <2>1. m.words \in Seq(Word) /\ Len(m.words) <= MaxWords
    BY <1>2 DEF Messages
  <2>2. Len(m.words) \in Nat
    BY <2>1, LenProperties
  <2> QED  BY <1>2, <2>1, <2>2 DEF Size, Holds
<1>3. CASE m.kind # "transport"
  BY <1>1, <1>3 DEF Size, Holds
<1> QED  BY <1>2, <1>3

\* The words of one message.
LEMMA CellsOfOne ==
  ASSUME NEW i, NEW n \in Nat
  PROVE  IsFiniteSet({i} \X (1..n)) /\ Cardinality({i} \X (1..n)) = n
<1> DEFINE S == 1..n
           T == {i} \X (1..n)
           f == [k \in S |-> <<i, k>>]
<1>1. IsFiniteSet(S) /\ Cardinality(S) = n
  BY FS_Interval
<1>2. f \in Bijection(S, T)
  BY DEF Bijection, Injection, Surjection, IsInjective
<1>3. ExistsBijection(S, T)
  BY <1>2 DEF ExistsBijection
<1> HIDE DEF S, T
<1>4. IsFiniteSet(T) /\ Cardinality(T) = Cardinality(S)
  BY <1>1, <1>3, FS_Bijection
<1> QED  BY <1>1, <1>4 DEF T

\* There are finitely many words under way.
LEMMA CellsFinite ==
  ASSUME NEW w \in Seq(Messages), NEW at \in SUBSET DOMAIN w
  PROVE  IsFiniteSet(Cells(w, at)) /\ Cardinality(Cells(w, at)) \in Nat
<1>1. DOMAIN w = 1..Len(w) /\ Len(w) \in Nat /\ MaxWords \in Nat
  BY LenProperties, MaxWordsAssumption
<1>2. IsFiniteSet(1..Len(w)) /\ IsFiniteSet(1..MaxWords)
  BY <1>1, FS_Interval
<1>3. IsFiniteSet((1..Len(w)) \X (1..MaxWords))
  BY <1>2, FS_Product
<1>4. Cells(w, at) \subseteq (1..Len(w)) \X (1..MaxWords)
  BY <1>1 DEF Cells
<1>5. IsFiniteSet(Cells(w, at))
  BY <1>3, <1>4, FS_Subset
<1> QED  BY <1>5, FS_CardinalityType

\* Two sets of words without a common one.
LEMMA CountApart ==
  ASSUME NEW S, NEW T, IsFiniteSet(S), IsFiniteSet(T), S \cap T = {}
  PROVE  Cardinality(S \cup T) = Cardinality(S) + Cardinality(T)
<1>1. Cardinality(S \cup T) = Cardinality(S) + Cardinality(T) - Cardinality(S \cap T)
  BY FS_Union
<1>2. Cardinality(S \cap T) = 0
  BY FS_EmptySet
<1>3. Cardinality(S) \in Nat /\ Cardinality(T) \in Nat
  BY FS_CardinalityType
<1> DEFINE a == Cardinality(S \cup T)
           b == Cardinality(S \cap T)
           c == Cardinality(S)
           d == Cardinality(T)
<1>4. a = c + d - b /\ b = 0 /\ c \in Nat /\ d \in Nat
  BY <1>1, <1>2, <1>3
<1> HIDE DEF a, b, c, d
<1>5. a = c + d
  BY <1>4
<1> QED  BY <1>5 DEF a, c, d

\* The words under way after one more message was sent.
LEMMA CellsAppended ==
  ASSUME NEW w \in Seq(Messages), NEW m \in Messages, NEW at \in SUBSET DOMAIN w
  PROVE  /\ Cardinality(Cells(Append(w, m), at)) = Cardinality(Cells(w, at))
         /\ Cardinality(Cells(Append(w, m), at \cup {Len(w) + 1})) = Cardinality(Cells(w, at)) + Size(m)
<1> DEFINE u == Append(w, m)
           n == Len(w)
           old == Cells(w, at)
           new == {n + 1} \X (1..Size(m))
<1>1. /\ n \in Nat /\ DOMAIN w = 1..n /\ \A i \in DOMAIN w : u[i] = w[i]
      /\ u[n + 1] = m
  BY Appended
<1>2. Size(m) \in Nat /\ Size(m) <= MaxWords /\ MaxWords \in Nat
      /\ \A k \in 1..MaxWords : Holds(m, k) <=> k <= Size(m)
  BY SizeIs, MaxWordsAssumption
<1> DEFINE s == Size(m)
<1> HIDE DEF u, n, s
<1>3. Cells(u, at) = old
  BY <1>1 DEF Cells
<1>4. Cells(u, at \cup {n + 1}) = old \cup new
  <2>1. \A k \in 1..MaxWords : Holds(m, k) <=> k \in 1..s
    BY <1>2 DEF s
  <2>2. 1..s \subseteq 1..MaxWords
    BY <1>2 DEF s
  <2>3. Cells(u, {n + 1}) = {n + 1} \X (1..s)
    BY <1>1, <2>1, <2>2 DEF Cells
  <2>4. Cells(u, at \cup {n + 1}) = Cells(u, at) \cup Cells(u, {n + 1})
    BY DEF Cells
  <2> QED  BY <1>3, <2>3, <2>4 DEF s
<1>5. IsFiniteSet(old)
  BY CellsFinite
<1>6. IsFiniteSet(new) /\ Cardinality(new) = Size(m)
  BY <1>2, CellsOfOne
<1>7. old \cap new = {}
  <2>1. n + 1 \notin at
    BY <1>1
  <2>2. \A c \in old : c[1] \in at
    BY DEF Cells
  <2>3. \A c \in new : c[1] = n + 1
    OBVIOUS
  <2> QED  BY <2>1, <2>2, <2>3
<1> HIDE DEF old, new
<1>8. Cardinality(old \cup new) = Cardinality(old) + Cardinality(new)
  BY <1>5, <1>6, <1>7, CountApart
<1> QED  BY <1>3, <1>4, <1>6, <1>8 DEF old, u, n

\* And after the first was received: the others move up by one.
LEMMA CellsReceived ==
  ASSUME NEW w \in Seq(Messages), w # << >>, NEW at \in SUBSET DOMAIN Tail(w)
  PROVE  /\ Cardinality(Cells(w, {i + 1 : i \in at})) = Cardinality(Cells(Tail(w), at))
         /\ Cardinality(Cells(w, {1} \cup {i + 1 : i \in at}))
              = Cardinality(Cells(Tail(w), at)) + Size(Head(w))
<1> DEFINE u == Tail(w)
           n == Len(w)
           up == {i + 1 : i \in at}
           S == Cells(u, at)
           T == Cells(w, up)
           new == {1} \X (1..Size(Head(w)))
           f == [c \in S |-> <<c[1] + 1, c[2]>>]
<1>1. /\ u \in Seq(Messages) /\ n \in Nat /\ n >= 1 /\ DOMAIN w = 1..n /\ DOMAIN u = 1..(n - 1)
      /\ \A i \in DOMAIN u : u[i] = w[i + 1]
      /\ Head(w) = w[1] /\ Head(w) \in Messages
  BY Received
<1>2. Size(Head(w)) \in Nat /\ Size(Head(w)) <= MaxWords /\ MaxWords \in Nat
      /\ \A k \in 1..MaxWords : Holds(Head(w), k) <=> k <= Size(Head(w))
  BY <1>1, SizeIs, MaxWordsAssumption
<1>3. up \subseteq DOMAIN w /\ 1 \notin up /\ 1 \in DOMAIN w
  BY <1>1
<1>4. IsFiniteSet(S)
  BY <1>1, CellsFinite
<1>5. f \in Bijection(S, T)
  <2>1. \A c \in S : /\ c = <<c[1], c[2]>> /\ c[1] \in at /\ c[1] \in Nat /\ c[2] \in 1..MaxWords
                     /\ Holds(w[c[1] + 1], c[2])
    BY <1>1 DEF Cells
  <2>2. \A c \in S : f[c] \in T
    BY <2>1 DEF Cells
  <2>3. \A c, d \in S : f[c] = f[d] => c = d
    <3> SUFFICES ASSUME NEW c \in S, NEW d \in S, f[c] = f[d]  PROVE c = d
      OBVIOUS
    <3>1. c[1] + 1 = d[1] + 1 /\ c[2] = d[2] /\ c[1] \in Nat /\ d[1] \in Nat
      BY <2>1
    <3>2. c[1] = d[1]
      BY <3>1
    <3> QED  BY <2>1, <3>1, <3>2
  <2>4. \A c \in T : \E d \in S : f[d] = c
    <3> SUFFICES ASSUME NEW c \in T  PROVE \E d \in S : f[d] = c
      OBVIOUS
    <3>1. c = <<c[1], c[2]>> /\ c[1] \in up /\ c[2] \in 1..MaxWords /\ Holds(w[c[1]], c[2])
      BY DEF Cells
    <3>2. PICK i \in at : c[1] = i + 1
      BY <3>1
    <3>3. <<i, c[2]>> \in S
      BY <1>1, <3>1, <3>2 DEF Cells
    <3>4. f[<<i, c[2]>>] = c
      BY <3>1, <3>2, <3>3
    <3> QED  BY <3>3, <3>4
  <2> HIDE DEF S, T
  <2>5. f \in [S -> T]
    BY <2>2
  <2> HIDE DEF f
  <2> QED  BY <2>3, <2>4, <2>5, Fun_IsBij
<1>6. ExistsBijection(S, T)
  BY <1>5 DEF ExistsBijection
<1> HIDE DEF f
<1>7. IsFiniteSet(T) /\ Cardinality(T) = Cardinality(S)
  <2> HIDE DEF S, T
  <2> QED  BY <1>4, <1>6, FS_Bijection
<1>8. IsFiniteSet(new) /\ Cardinality(new) = Size(Head(w))
  BY <1>2, CellsOfOne
<1>9. T \cap new = {}
  <2>1. \A c \in T : c[1] \in up
    BY DEF Cells
  <2>2. \A c \in new : c[1] = 1
    OBVIOUS
  <2> QED  BY <1>3, <2>1, <2>2
<1>10. Cells(w, {1} \cup up) = T \cup new
  <2> DEFINE s == Size(Head(w))
  <2> HIDE DEF s
  <2>1. \A k \in 1..MaxWords : Holds(w[1], k) <=> k \in 1..s
    BY <1>1, <1>2 DEF s
  <2>2. 1..s \subseteq 1..MaxWords
    BY <1>2 DEF s
  <2>3. Cells(w, {1}) = {1} \X (1..s)
    BY <2>1, <2>2 DEF Cells
  <2>4. Cells(w, {1} \cup up) = Cells(w, up) \cup Cells(w, {1})
    BY DEF Cells
  <2> QED  BY <2>3, <2>4 DEF s
<1> HIDE DEF S, T, new
<1>11. Cardinality(T \cup new) = Cardinality(T) + Cardinality(new)
  BY <1>7, <1>8, <1>9, CountApart
<1> HIDE DEF up
<1>12. Cardinality(Cells(w, {1} \cup up)) = Cardinality(S) + Size(Head(w))
  BY <1>7, <1>8, <1>10, <1>11
<1> QED  BY <1>7, <1>12 DEF S, T, up, u

\* Which messages are heeded after one more was sent.
LEMMA HeededAppended ==
  ASSUME NEW w \in Seq(Messages), NEW m \in Messages, NEW phase
  PROVE  Heeded(Append(w, m), phase)
           = Heeded(w, phase)
               \cup (IF phase = "wait" /\ None(w, "response") THEN {} ELSE {Len(w) + 1})
<1> DEFINE u == Append(w, m)
           n == Len(w)
<1>1. /\ n \in Nat /\ DOMAIN w = 1..n /\ DOMAIN u = 1..(n + 1)
      /\ \A i \in 1..n : u[i] = w[i]
  BY Appended
<1> HIDE DEF u, n
<1>2. \A i \in 1..n : i \in Heeded(u, phase) <=> i \in Heeded(w, phase)
  <2> SUFFICES ASSUME NEW i \in 1..n
               PROVE  i \in Heeded(u, phase) <=> i \in Heeded(w, phase)
    OBVIOUS
  <2>1. \A k \in 1..(i - 1) : u[k] = w[k]
    BY <1>1
  <2>2. i \in DOMAIN u /\ i \in DOMAIN w
    BY <1>1
  <2> QED  BY <2>1, <2>2 DEF Heeded
<1>3. n + 1 \in Heeded(u, phase) <=> ~(phase = "wait" /\ None(w, "response"))
  <2>1. n + 1 \in DOMAIN u /\ (n + 1) - 1 = n
    BY <1>1
  <2>2. n + 1 \in Heeded(u, phase)
          <=> (phase = "wait" => \E k \in 1..n : u[k].kind = "response")
    BY <2>1 DEF Heeded
  <2> QED  BY <1>1, <2>2 DEF None
<1>4. Heeded(u, phase) \subseteq 1..(n + 1) /\ Heeded(w, phase) \subseteq 1..n
  BY <1>1 DEF Heeded
<1>5. n + 1 \notin 1..n /\ 1..(n + 1) = (1..n) \cup {n + 1}
  BY <1>1
<1> QED  BY <1>2, <1>3, <1>4, <1>5 DEF u, n

\* And after the first was received: a response ends the wait.
LEMMA HeededReceived ==
  ASSUME NEW w \in Seq(Messages), w # << >>, NEW phase, NEW next,
         next = IF phase = "wait" /\ Head(w).kind = "response" THEN "normal" ELSE phase
  PROVE  Heeded(w, phase) = (IF phase = "wait" THEN {} ELSE {1})
                              \cup {i + 1 : i \in Heeded(Tail(w), next)}
<1> DEFINE u == Tail(w)
           n == Len(w)
<1>1. /\ n \in Nat /\ n >= 1 /\ DOMAIN w = 1..n /\ DOMAIN u = 1..(n - 1)
      /\ \A i \in 1..(n - 1) : u[i] = w[i + 1]
      /\ Head(w) = w[1]
  BY Received
<1> HIDE DEF u, n
<1>2. 1 \in Heeded(w, phase) <=> phase # "wait"
  BY <1>1 DEF Heeded
<1>3. \A i \in 1..(n - 1) : i + 1 \in Heeded(w, phase) <=> i \in Heeded(u, next)
  <2> SUFFICES ASSUME NEW i \in 1..(n - 1)
               PROVE  i + 1 \in Heeded(w, phase) <=> i \in Heeded(u, next)
    OBVIOUS
  <2>1. i \in DOMAIN u /\ i + 1 \in DOMAIN w /\ (i + 1) - 1 = i /\ i \in Nat /\ i >= 1
    BY <1>1
  <2>2. i + 1 \in Heeded(w, phase)
          <=> (phase = "wait" => \E k \in 1..i : w[k].kind = "response")
    BY <2>1 DEF Heeded
  <2>3. i \in Heeded(u, next) <=> (next = "wait" => \E k \in 1..(i - 1) : u[k].kind = "response")
    BY <2>1 DEF Heeded
  <2>4. (\E k \in 1..i : w[k].kind = "response")
          <=> w[1].kind = "response" \/ \E k \in 1..(i - 1) : u[k].kind = "response"
    <3>1. \A k \in 1..i : k = 1 \/ (k - 1 \in 1..(i - 1) /\ u[k - 1] = w[k])
      BY <1>1, <2>1
    <3>2. \A k \in 1..(i - 1) : k + 1 \in 1..i /\ u[k] = w[k + 1]
      BY <1>1, <2>1
    <3>3. 1 \in 1..i
      BY <2>1
    <3>4. ASSUME NEW k \in 1..i, w[k].kind = "response"
          PROVE  w[1].kind = "response" \/ \E j \in 1..(i - 1) : u[j].kind = "response"
      BY <3>1, <3>4
    <3>5. ASSUME NEW k \in 1..(i - 1), u[k].kind = "response"
          PROVE  \E j \in 1..i : w[j].kind = "response"
      BY <3>2, <3>5
    <3> QED  BY <3>3, <3>4, <3>5
  <2> QED  BY <1>1, <2>2, <2>3, <2>4
<1>4. Heeded(w, phase) \subseteq 1..n /\ Heeded(u, next) \subseteq 1..(n - 1)
  BY <1>1 DEF Heeded
<1>5. \A i \in 1..n : i = 1 \/ \E j \in 1..(n - 1) : i = j + 1
  <2> SUFFICES ASSUME NEW i \in 1..n, i # 1  PROVE \E j \in 1..(n - 1) : i = j + 1
    OBVIOUS
  <2>1. i - 1 \in 1..(n - 1) /\ i = (i - 1) + 1
    BY <1>1
  <2> QED  BY <2>1
<1>6. \A i \in 1..(n - 1) : i + 1 \in 1..n /\ i + 1 # 1
  BY <1>1
<1> DEFINE low == IF phase = "wait" THEN {} ELSE {1}
           high == {i + 1 : i \in Heeded(u, next)}
<1>7. \A i \in Heeded(w, phase) : i \in low \/ i \in high
  BY <1>2, <1>3, <1>4, <1>5
<1>8. \A i \in low : i \in Heeded(w, phase)
  BY <1>2
<1>9. \A i \in high : i \in Heeded(w, phase)
  BY <1>3, <1>4
<1> HIDE DEF low, high
<1>10. Heeded(w, phase) = low \cup high
  BY <1>7, <1>8, <1>9
<1> QED  BY <1>10 DEF low, high, u

\* The words that will be taken, after a message was sent.
LEMMA WordsAppended ==
  ASSUME NEW w \in Seq(Messages), NEW m \in Messages, NEW phase
  PROVE  WordsHeeded(Append(w, m), phase)
           = WordsHeeded(w, phase)
               + (IF phase = "wait" /\ None(w, "response") THEN 0 ELSE Size(m))
<1> DEFINE at == Heeded(w, phase)
           more == Heeded(Append(w, m), phase)
<1>1. at \in SUBSET DOMAIN w
  BY DEF Heeded
<1>2. more = at \cup (IF phase = "wait" /\ None(w, "response") THEN {} ELSE {Len(w) + 1})
  BY HeededAppended
<1>3. Cardinality(Cells(w, at)) \in Nat
  BY <1>1, CellsFinite
<1>4. WordsHeeded(Append(w, m), phase) = Cardinality(Cells(Append(w, m), more))
      /\ WordsHeeded(w, phase) = Cardinality(Cells(w, at))
  BY DEF WordsHeeded
<1> HIDE DEF at, more
<1>5. /\ Cardinality(Cells(Append(w, m), at)) = Cardinality(Cells(w, at))
      /\ Cardinality(Cells(Append(w, m), at \cup {Len(w) + 1})) = Cardinality(Cells(w, at)) + Size(m)
  BY <1>1, CellsAppended
<1>6. CASE phase = "wait" /\ None(w, "response")
  <2>1. more = at
    BY <1>2, <1>6
  <2> DEFINE a == Cardinality(Cells(w, at))
  <2>2. a \in Nat /\ a + 0 = a
    BY <1>3
  <2> QED  BY <1>4, <1>5, <1>6, <2>1, <2>2
<1>7. CASE ~(phase = "wait" /\ None(w, "response"))
  <2>1. more = at \cup {Len(w) + 1}
    BY <1>2, <1>7
  <2> QED  BY <1>4, <1>5, <1>7, <2>1
<1> QED  BY <1>6, <1>7

\* And after the first was received.
LEMMA WordsReceived ==
  ASSUME NEW w \in Seq(Messages), w # << >>, NEW phase, NEW next,
         next = IF phase = "wait" /\ Head(w).kind = "response" THEN "normal" ELSE phase
  PROVE  WordsHeeded(w, phase)
           = WordsHeeded(Tail(w), next) + (IF phase = "wait" THEN 0 ELSE Size(Head(w)))
<1> DEFINE at == Heeded(Tail(w), next)
           all == Heeded(w, phase)
           up == {i + 1 : i \in at}
<1>1. at \in SUBSET DOMAIN Tail(w)
  BY DEF Heeded
<1>2. all = (IF phase = "wait" THEN {} ELSE {1}) \cup up
  BY HeededReceived
<1>3. Cardinality(Cells(Tail(w), at)) \in Nat
  BY <1>1, CellsFinite, Received
<1>4. WordsHeeded(Tail(w), next) = Cardinality(Cells(Tail(w), at))
      /\ WordsHeeded(w, phase) = Cardinality(Cells(w, all))
  BY DEF WordsHeeded
<1> HIDE DEF at, all
<1>5. /\ Cardinality(Cells(w, up)) = Cardinality(Cells(Tail(w), at))
      /\ Cardinality(Cells(w, {1} \cup up)) = Cardinality(Cells(Tail(w), at)) + Size(Head(w))
  BY <1>1, CellsReceived
<1> HIDE DEF up
<1>6. CASE phase = "wait"
  <2>1. all = up
    BY <1>2, <1>6
  <2> DEFINE a == Cardinality(Cells(Tail(w), at))
  <2>2. a \in Nat /\ a + 0 = a
    BY <1>3
  <2> QED  BY <1>4, <1>5, <1>6, <2>1, <2>2
<1>7. CASE phase # "wait"
  <2>1. all = {1} \cup up
    BY <1>2, <1>7
  <2> QED  BY <1>4, <1>5, <1>7, <2>1
<1> QED  BY <1>6, <1>7

\* Their number is a number; it does not depend on the phase but for the wait; and there
\* are none where nothing is heeded or only responses are under way.
LEMMA WordsType ==
  ASSUME NEW w \in Seq(Messages), NEW phase
  PROVE  /\ WordsHeeded(w, phase) \in Nat
         /\ \A q : phase # "wait" /\ q # "wait" => WordsHeeded(w, q) = WordsHeeded(w, phase)
         /\ phase = "wait" /\ None(w, "response") => WordsHeeded(w, phase) = 0
         /\ OnlyResponses(w) => WordsHeeded(w, phase) = 0
<1>1. WordsHeeded(w, phase) \in Nat
  <2>1. Heeded(w, phase) \in SUBSET DOMAIN w
    BY DEF Heeded
  <2> QED  BY <2>1, CellsFinite DEF WordsHeeded
<1>2. ASSUME NEW q, phase # "wait", q # "wait"  PROVE WordsHeeded(w, q) = WordsHeeded(w, phase)
  <2>1. Heeded(w, q) = Heeded(w, phase)
    BY <1>2 DEF Heeded
  <2> QED  BY <2>1 DEF WordsHeeded
<1>3. DOMAIN w = 1..Len(w) /\ Len(w) \in Nat
  BY LenProperties
<1>4. ASSUME phase = "wait", None(w, "response")  PROVE WordsHeeded(w, phase) = 0
  <2>1. \A i \in DOMAIN w : 1..(i - 1) \subseteq DOMAIN w
    BY <1>3
  <2>2. Heeded(w, phase) = {}
    BY <1>4, <2>1 DEF Heeded, None
  <2>3. Cells(w, Heeded(w, phase)) = {}
    BY <2>2 DEF Cells
  <2> QED  BY <2>3, FS_EmptySet DEF WordsHeeded
<1>5. ASSUME OnlyResponses(w)  PROVE WordsHeeded(w, phase) = 0
  <2>1. Heeded(w, phase) \subseteq DOMAIN w
    BY DEF Heeded
  <2>2. Cells(w, Heeded(w, phase)) = {}
    BY <1>5, <2>1 DEF Cells, OnlyResponses, Holds
  <2> QED  BY <2>2, FS_EmptySet DEF WordsHeeded
<1> QED  BY <1>1, <1>2, <1>4, <1>5

-------------------------------------------------------------------------------
(* The updates under way.                                                        *)

Bids(w, phase) == {i \in Heeded(w, phase) : w[i].kind = "credit"}

\* Seen from the writer's own counter t, the updates that will be heeded never fall
\* behind the last one it has, nor behind each other, nor get ahead of the reader.
Rising(w, phase, latest, total, t) ==
  /\ Ahead(latest, t) <= Ahead(total, t)
  /\ \A i \in Bids(w, phase) :
       /\ Ahead(latest, t) <= Ahead(w[i].value, t)
       /\ Ahead(w[i].value, t) <= Ahead(total, t)
       /\ \A j \in Bids(w, phase) : i < j => Ahead(w[i].value, t) <= Ahead(w[j].value, t)

\* An update carries a counter value.
LEMMA BidsAre ==
  ASSUME NEW w \in Seq(Messages), NEW phase
  PROVE  \A i \in Bids(w, phase) : i \in DOMAIN w /\ i \in 1..Len(w) /\ w[i].value \in Counters
<1> SUFFICES ASSUME NEW i \in Bids(w, phase)
             PROVE  i \in DOMAIN w /\ i \in 1..Len(w) /\ w[i].value \in Counters
  OBVIOUS
<1>1. i \in DOMAIN w /\ i \in 1..Len(w) /\ w[i].kind = "credit"
  BY LenProperties DEF Bids, Heeded
<1>2. w[i] \in Messages
  BY <1>1, ElementOfSeq
<1> QED  BY <1>1, <1>2 DEF Messages

\* What is sent behind the others: no update, or one up to date.
LEMMA RisingAppended ==
  ASSUME NEW w \in Seq(Messages), NEW m \in Messages, NEW phase,
         NEW latest \in Counters, NEW total \in Counters, NEW t \in Counters,
         Rising(w, phase, latest, total, t),
         m.kind = "credit" => m.value = total
  PROVE  Rising(Append(w, m), phase, latest, total, t)
<1> DEFINE u == Append(w, m)
           n == Len(w)
<1>1. /\ n \in Nat /\ DOMAIN w = 1..n /\ DOMAIN u = 1..(n + 1)
      /\ \A i \in 1..n : u[i] = w[i]
      /\ u[n + 1] = m
  BY Appended
<1>2. Heeded(u, phase) \subseteq Heeded(w, phase) \cup {n + 1}
  BY HeededAppended
<1>3. \A i \in Bids(w, phase) : i \in 1..n
  BY BidsAre
<1>4. Ahead(latest, t) \in Nat /\ Ahead(total, t) \in Nat
  BY AheadType
<1> HIDE DEF u, n
<1>5. \A i \in Bids(u, phase) :
        \/ i \in Bids(w, phase) /\ i \in 1..n /\ u[i] = w[i]
        \/ i = n + 1 /\ u[i].value = total
  <2> SUFFICES ASSUME NEW i \in Bids(u, phase)
               PROVE  \/ i \in Bids(w, phase) /\ i \in 1..n /\ u[i] = w[i]
                      \/ i = n + 1 /\ u[i].value = total
    OBVIOUS
  <2>1. i \in Heeded(u, phase) /\ u[i].kind = "credit"
    BY DEF Bids
  <2>2. CASE i = n + 1
    BY <1>1, <2>1, <2>2
  <2>3. CASE i \in Heeded(w, phase)
    <3>1. i \in 1..n
      BY <1>1, <2>3 DEF Heeded
    <3> QED  BY <1>1, <2>1, <2>3, <3>1 DEF Bids
  <2> QED  BY <1>2, <2>1, <2>2, <2>3
<1> DEFINE A(v) == Ahead(v, t)
<1>6. /\ A(latest) \in Nat /\ A(total) \in Nat /\ A(latest) <= A(total)
      /\ \A i \in Bids(w, phase) :
           /\ A(latest) <= A(w[i].value) /\ A(w[i].value) <= A(total)
           /\ \A j \in Bids(w, phase) : i < j => A(w[i].value) <= A(w[j].value)
  BY <1>4 DEF Rising
<1> HIDE DEF A
<1>7. \A i \in Bids(u, phase) :
           /\ A(latest) <= A(u[i].value) /\ A(u[i].value) <= A(total)
           /\ \A j \in Bids(u, phase) : i < j => A(u[i].value) <= A(u[j].value)
  <2> SUFFICES ASSUME NEW i \in Bids(u, phase)
               PROVE  /\ A(latest) <= A(u[i].value) /\ A(u[i].value) <= A(total)
                      /\ \A j \in Bids(u, phase) : i < j => A(u[i].value) <= A(u[j].value)
    OBVIOUS
  <2>1. A(latest) <= A(u[i].value) /\ A(u[i].value) <= A(total)
    BY <1>5, <1>6
  <2>2. ASSUME NEW j \in Bids(u, phase), i < j  PROVE A(u[i].value) <= A(u[j].value)
    <3>1. CASE j = n + 1 /\ u[j].value = total
      BY <2>1, <3>1
    <3>2. CASE j \in Bids(w, phase) /\ j \in 1..n /\ u[j] = w[j]
      <4>1. i # n + 1
        BY <1>1, <2>2, <3>2
      <4> QED  BY <1>5, <1>6, <2>2, <3>2, <4>1
    <3> QED  BY <1>5, <3>1, <3>2
  <2> QED  BY <2>1, <2>2
<1> QED  BY <1>6, <1>7 DEF Rising, A, u

\* What is received ahead of the others; an update that is heeded becomes the last one.
LEMMA RisingReceived ==
  ASSUME NEW w \in Seq(Messages), w # << >>, NEW phase, NEW next,
         NEW latest \in Counters, NEW total \in Counters, NEW t \in Counters,
         next = IF phase = "wait" /\ Head(w).kind = "response" THEN "normal" ELSE phase,
         Rising(w, phase, latest, total, t)
  PROVE  /\ Rising(Tail(w), next, latest, total, t)
         /\ phase # "wait" /\ Head(w).kind = "credit"
              => Rising(Tail(w), next, Head(w).value, total, t)
<1> DEFINE u == Tail(w)
           n == Len(w)
<1>1. /\ n \in Nat /\ n >= 1 /\ DOMAIN w = 1..n /\ DOMAIN u = 1..(n - 1)
      /\ \A i \in 1..(n - 1) : u[i] = w[i + 1]
      /\ Head(w) = w[1]
  BY Received
<1>2. Heeded(w, phase) = (IF phase = "wait" THEN {} ELSE {1}) \cup {i + 1 : i \in Heeded(u, next)}
  BY HeededReceived
<1> HIDE DEF u, n
<1>3. \A i \in Bids(u, next) : i \in Nat /\ i + 1 \in Bids(w, phase) /\ u[i] = w[i + 1]
  <2> SUFFICES ASSUME NEW i \in Bids(u, next)
               PROVE  i \in Nat /\ i + 1 \in Bids(w, phase) /\ u[i] = w[i + 1]
    OBVIOUS
  <2>1. i \in Heeded(u, next) /\ u[i].kind = "credit" /\ i \in DOMAIN u
    BY DEF Bids, Heeded
  <2>2. i + 1 \in Heeded(w, phase)
    BY <1>2, <2>1
  <2> QED  BY <1>1, <2>1, <2>2 DEF Bids
<1>4. phase # "wait" /\ Head(w).kind = "credit" => 1 \in Bids(w, phase)
  BY <1>1, <1>2 DEF Bids
<1> DEFINE A(v) == Ahead(v, t)
<1>5. /\ A(latest) <= A(total)
      /\ \A i \in Bids(w, phase) :
           /\ A(latest) <= A(w[i].value) /\ A(w[i].value) <= A(total)
           /\ \A j \in Bids(w, phase) : i < j => A(w[i].value) <= A(w[j].value)
  BY DEF Rising
<1> HIDE DEF A
<1>6. \A i \in Bids(u, next) :
           /\ A(latest) <= A(u[i].value) /\ A(u[i].value) <= A(total)
           /\ \A j \in Bids(u, next) : i < j => A(u[i].value) <= A(u[j].value)
  <2>1. \A i, j \in Bids(u, next) : i < j => i + 1 < j + 1
    BY <1>3
  <2> QED  BY <1>3, <1>5, <2>1
<1>7. Rising(u, next, latest, total, t)
  BY <1>5, <1>6 DEF Rising, A
<1>8. ASSUME phase # "wait", Head(w).kind = "credit"
      PROVE  Rising(u, next, Head(w).value, total, t)
  <2>1. 1 \in Bids(w, phase) /\ A(Head(w).value) <= A(total)
    BY <1>1, <1>4, <1>5, <1>8
  <2>2. \A i \in Bids(u, next) : 1 < i + 1
    <3>1. \A i \in Bids(u, next) : i \in 1..(n - 1)
      BY <1>1 DEF Bids, Heeded
    <3> QED  BY <1>1, <3>1
  <2>3. \A i \in Bids(u, next) : A(Head(w).value) <= A(u[i].value)
    BY <1>1, <1>3, <1>5, <2>1, <2>2
  <2> QED  BY <1>6, <2>1, <2>3 DEF Rising, A
<1> QED  BY <1>7, <1>8 DEF u

\* The writer sends n words, no more than its last update allows.
LEMMA RisingSent ==
  ASSUME NEW w \in Seq(Messages), NEW phase,
         NEW latest \in Counters, NEW total \in Counters, NEW t \in Counters,
         Rising(w, phase, latest, total, t),
         NEW n \in Nat, n <= Ahead(latest, t)
  PROVE  Rising(w, phase, latest, total, (t + n) % Modulus)
<1> DEFINE A(v) == Ahead(v, t)
           B(v) == Ahead(v, (t + n) % Modulus)
<1>1. \A v \in Counters : A(v) \in Nat /\ (n <= A(v) => B(v) = A(v) - n)
  BY AheadType, AheadAfterSending
<1>2. /\ A(latest) <= A(total) /\ n <= A(latest)
      /\ \A i \in Bids(w, phase) :
           /\ A(latest) <= A(w[i].value) /\ A(w[i].value) <= A(total)
           /\ \A j \in Bids(w, phase) : i < j => A(w[i].value) <= A(w[j].value)
  BY DEF Rising
<1>3. \A i \in Bids(w, phase) : w[i].value \in Counters
  BY BidsAre
<1> HIDE DEF A, B
<1>4. /\ B(latest) = A(latest) - n /\ B(total) = A(total) - n
      /\ A(latest) \in Nat /\ A(total) \in Nat
  BY <1>1, <1>2
<1>5. \A i \in Bids(w, phase) : B(w[i].value) = A(w[i].value) - n /\ A(w[i].value) \in Nat
  BY <1>1, <1>2, <1>3, <1>4
<1>6. /\ B(latest) <= B(total)
      /\ \A i \in Bids(w, phase) :
           /\ B(latest) <= B(w[i].value) /\ B(w[i].value) <= B(total)
           /\ \A j \in Bids(w, phase) : i < j => B(w[i].value) <= B(w[j].value)
  BY <1>2, <1>4, <1>5
<1> QED  BY <1>6 DEF Rising, B

\* The reader reads one word more.
LEMMA RisingRead ==
  ASSUME NEW w \in Seq(Messages), NEW phase,
         NEW latest \in Counters, NEW total \in Counters, NEW t \in Counters,
         Rising(w, phase, latest, total, t), Ahead(total, t) < Modulus - 1
  PROVE  Rising(w, phase, latest, (total + 1) % Modulus, t)
<1> DEFINE A(v) == Ahead(v, t)
           next == (total + 1) % Modulus
<1>1. A(next) = A(total) + 1 /\ \A v \in Counters : A(v) \in Nat
  BY AheadAfterReading, AheadType
<1>2. /\ A(latest) <= A(total)
      /\ \A i \in Bids(w, phase) :
           /\ A(latest) <= A(w[i].value) /\ A(w[i].value) <= A(total)
           /\ \A j \in Bids(w, phase) : i < j => A(w[i].value) <= A(w[j].value)
  BY DEF Rising
<1>3. \A i \in Bids(w, phase) : w[i].value \in Counters
  BY BidsAre
<1> HIDE DEF A, next
<1>4. /\ A(latest) <= A(next)
      /\ \A i \in Bids(w, phase) :
           /\ A(latest) <= A(w[i].value) /\ A(w[i].value) <= A(next)
           /\ \A j \in Bids(w, phase) : i < j => A(w[i].value) <= A(w[j].value)
  BY <1>1, <1>2, <1>3
<1> QED  BY <1>4 DEF Rising, A, next

\* Where nothing that is heeded carries an update.
LEMMA RisingEmpty ==
  ASSUME NEW w \in Seq(Messages), NEW phase, NEW total \in Counters,
         (phase = "wait" /\ None(w, "response")) \/ OnlyResponses(w)
  PROVE  Rising(w, phase, 0, total, 0)
<1>1. Bids(w, phase) = {}
  <2>1. DOMAIN w = 1..Len(w) /\ Len(w) \in Nat
    BY LenProperties
  <2>2. \A i \in DOMAIN w : 1..(i - 1) \subseteq DOMAIN w
    BY <2>1
  <2> QED  BY <2>2 DEF Bids, Heeded, None, OnlyResponses
<1>2. Ahead(0, 0) = 0 /\ Ahead(total, 0) = total /\ 0 <= total
  BY AheadType, CountersAre
<1> QED  BY <1>1, <1>2 DEF Rising

-------------------------------------------------------------------------------
(* The handshake of a reset: an end in some phase, what it has sent (w), the      *)
(* responses its peer owes, and what the peer has sent (back).                    *)

\* No reset of this end is known to the peer.
Quiet(phase, w, owed, back) ==
  phase # "wait" /\ None(w, "request") /\ owed = << >> /\ None(back, "response")

\* Its request is under way, behind everything it has sent before.
Asked(phase, w, owed, back) ==
  /\ phase = "wait" /\ One(w, "request") /\ Behind(w)
  /\ owed = << >> /\ None(back, "response")

\* The peer owes the response.
Owed(phase, w, owed, back) ==
  phase = "wait" /\ OnlyResponses(w) /\ Len(owed) = 1 /\ None(back, "response")

\* The response is under way.
Answered(phase, w, owed, back) ==
  phase = "wait" /\ OnlyResponses(w) /\ owed = << >> /\ One(back, "response")

Shook(phase, w, owed, back) ==
  \/ Quiet(phase, w, owed, back) \/ Asked(phase, w, owed, back)
  \/ Owed(phase, w, owed, back) \/ Answered(phase, w, owed, back)

\* What the handshake tells.
LEMMA ShookTells ==
  ASSUME NEW phase, NEW w \in Seq(Messages), NEW owed \in Seq(BOOLEAN), NEW back \in Seq(Messages),
         Shook(phase, w, owed, back)
  PROVE  /\ phase # "wait" => None(w, "request") /\ owed = << >> /\ None(back, "response")
         /\ owed # << >> => phase = "wait" /\ OnlyResponses(w) /\ None(back, "response")
                            /\ Len(owed) = 1
         /\ ~None(w, "request") => phase = "wait" /\ Behind(w) /\ One(w, "request")
                                   /\ owed = << >> /\ None(back, "response")
         /\ ~None(back, "response") => phase = "wait" /\ OnlyResponses(w) /\ owed = << >>
                                      /\ One(back, "response")
         /\ phase = "wait" /\ None(w, "request") /\ owed = << >> => ~None(back, "response")
<1>1. OnlyResponses(w) => None(w, "request")
  BY DEF OnlyResponses, None
<1>2. \A v, k : One(v, k) => ~None(v, k)
  BY DEF One, None
<1>3. Len(owed) = 1 => owed # << >>
  <2>1. owed = << >> => Len(owed) = 0
    BY EmptySeq
  <2> QED  BY <2>1
<1>4. CASE Quiet(phase, w, owed, back)
  BY <1>4 DEF Quiet
<1>5. CASE Asked(phase, w, owed, back)
  BY <1>2, <1>5 DEF Asked
<1>6. CASE Owed(phase, w, owed, back)
  BY <1>1, <1>3, <1>6 DEF Owed
<1>7. CASE Answered(phase, w, owed, back)
  BY <1>1, <1>2, <1>7 DEF Answered
<1> QED  BY <1>4, <1>5, <1>6, <1>7 DEF Shook

\* An end that does not wait sends a message that is neither request nor response, or
\* leaves its phase for another one that is no wait.
LEMMA ShookOrdinary ==
  ASSUME NEW phase, NEW w \in Seq(Messages), NEW owed \in Seq(BOOLEAN), NEW back \in Seq(Messages),
         Shook(phase, w, owed, back), phase # "wait"
  PROVE  /\ \A m \in Messages : m.kind # "request" => Shook(phase, Append(w, m), owed, back)
         /\ \A next : next # "wait" => Shook(next, w, owed, back)
<1>1. Quiet(phase, w, owed, back)
  BY DEF Shook, Asked, Owed, Answered
<1>2. \A m \in Messages : m.kind # "request" => None(Append(w, m), "request")
  BY <1>1, KindsAppended DEF Quiet
<1> QED  BY <1>1, <1>2 DEF Shook, Quiet

\* Its request leaves, and it waits.
LEMMA ShookRequest ==
  ASSUME NEW phase, NEW w \in Seq(Messages), NEW owed \in Seq(BOOLEAN), NEW back \in Seq(Messages),
         Shook(phase, w, owed, back), phase # "wait",
         NEW m \in Messages, m.kind = "request"
  PROVE  Shook("wait", Append(w, m), owed, back)
<1>1. Quiet(phase, w, owed, back)
  BY DEF Shook, Asked, Owed, Answered
<1>2. One(Append(w, m), "request") /\ Behind(Append(w, m))
  BY <1>1, KindsAppended DEF Quiet
<1> QED  BY <1>1, <1>2 DEF Shook, Quiet, Asked

\* It answers the peer.
LEMMA ShookAnswers ==
  ASSUME NEW phase, NEW w \in Seq(Messages), NEW owed \in Seq(BOOLEAN), NEW back \in Seq(Messages),
         Shook(phase, w, owed, back),
         NEW m \in Messages, m.kind = "response"
  PROVE  Shook(phase, Append(w, m), owed, back)
<1>1. /\ None(w, "request") => None(Append(w, m), "request")
      /\ One(w, "request") => One(Append(w, m), "request")
      /\ Behind(w) => Behind(Append(w, m))
      /\ OnlyResponses(w) => OnlyResponses(Append(w, m))
  BY KindsAppended
<1> QED  BY <1>1 DEF Shook, Quiet, Asked, Owed, Answered

\* The peer sends anything but a response.
LEMMA ShookBack ==
  ASSUME NEW phase, NEW w \in Seq(Messages), NEW owed \in Seq(BOOLEAN), NEW back \in Seq(Messages),
         Shook(phase, w, owed, back),
         NEW m \in Messages, m.kind # "response"
  PROVE  Shook(phase, w, owed, Append(back, m))
<1>1. /\ None(back, "response") => None(Append(back, m), "response")
      /\ One(back, "response") => One(Append(back, m), "response")
  BY KindsAppended
<1> QED  BY <1>1 DEF Shook, Quiet, Asked, Owed, Answered

\* The peer sends the response it owes.
LEMMA ShookAnswered ==
  ASSUME NEW phase, NEW w \in Seq(Messages), NEW owed \in Seq(BOOLEAN), NEW back \in Seq(Messages),
         Shook(phase, w, owed, back), owed # << >>,
         NEW m \in Messages, m.kind = "response"
  PROVE  Tail(owed) = << >> /\ Shook(phase, w, Tail(owed), Append(back, m))
<1>1. Owed(phase, w, owed, back)
  BY DEF Shook, Quiet, Asked, Answered
<1>2. One(Append(back, m), "response")
  BY <1>1, KindsAppended DEF Owed
<1>3. Tail(owed) = << >>
  <2>1. Tail(owed) \in Seq(BOOLEAN) /\ Len(Tail(owed)) = 0
    BY <1>1, HeadTailProperties DEF Owed
  <2> QED  BY <2>1, EmptySeq
<1> QED  BY <1>1, <1>2, <1>3 DEF Shook, Owed, Answered

\* The peer receives anything but a request.
LEMMA ShookReceived ==
  ASSUME NEW phase, NEW w \in Seq(Messages), NEW owed \in Seq(BOOLEAN), NEW back \in Seq(Messages),
         Shook(phase, w, owed, back), w # << >>, Head(w).kind # "request"
  PROVE  Shook(phase, Tail(w), owed, back)
<1>1. /\ None(w, "request") => None(Tail(w), "request")
      /\ One(w, "request") => One(Tail(w), "request")
      /\ Behind(w) => Behind(Tail(w))
      /\ OnlyResponses(w) => OnlyResponses(Tail(w))
  BY KindsReceived
<1> QED  BY <1>1 DEF Shook, Quiet, Asked, Owed, Answered

\* The peer receives the request.
LEMMA ShookOwes ==
  ASSUME NEW phase, NEW w \in Seq(Messages), NEW owed \in Seq(BOOLEAN), NEW back \in Seq(Messages),
         Shook(phase, w, owed, back), w # << >>, Head(w).kind = "request",
         NEW all \in BOOLEAN
  PROVE  OnlyResponses(Tail(w)) /\ Shook(phase, Tail(w), Append(owed, all), back)
<1>1. ~None(w, "request")
  BY KindsReceived
<1>2. Asked(phase, w, owed, back)
  BY <1>1 DEF Shook, Quiet, Owed, Answered, OnlyResponses, None
<1>3. OnlyResponses(Tail(w))
  BY <1>2, KindsReceived DEF Asked
<1>4. Len(Append(owed, all)) = 1
  BY <1>2 DEF Asked
<1> QED  BY <1>2, <1>3, <1>4 DEF Shook, Asked, Owed

\* The end receives anything but a response.
LEMMA ShookHeard ==
  ASSUME NEW phase, NEW w \in Seq(Messages), NEW owed \in Seq(BOOLEAN), NEW back \in Seq(Messages),
         Shook(phase, w, owed, back), back # << >>, Head(back).kind # "response"
  PROVE  Shook(phase, w, owed, Tail(back))
<1>1. /\ None(back, "response") => None(Tail(back), "response")
      /\ One(back, "response") => One(Tail(back), "response")
  BY KindsReceived
<1> QED  BY <1>1 DEF Shook, Quiet, Asked, Owed, Answered

\* It receives the response, and its reset is over.
LEMMA ShookEnds ==
  ASSUME NEW phase, NEW w \in Seq(Messages), NEW owed \in Seq(BOOLEAN), NEW back \in Seq(Messages),
         Shook(phase, w, owed, back), back # << >>, Head(back).kind = "response"
  PROVE  phase = "wait" /\ OnlyResponses(w) /\ Shook("normal", w, owed, Tail(back))
<1>1. ~None(back, "response")
  BY KindsReceived
<1>2. Answered(phase, w, owed, back)
  BY <1>1 DEF Shook, Quiet, Asked, Owed
<1>3. None(Tail(back), "response") /\ None(w, "request")
  BY <1>2, KindsReceived DEF Answered, OnlyResponses, None
<1> QED  BY <1>2, <1>3 DEF Shook, Quiet, Answered

-------------------------------------------------------------------------------
(* One end: its flow control and its sequencer.                                  *)

Flows == {f \in [tx : Seq(Word), rx : Seq(Word), tx_counter : Counters, rx_counter : Counters,
                 latest_fc : Counters, in_reset : BOOLEAN, channel4_enabled : {TRUE}] :
            Len(f.tx) <= TxDepth /\ Len(f.rx) <= RxDepth}

Sequencers == {s \in [held : {FALSE}, phase : Phases, noops : 0..NoOps, all_streams : BOOLEAN,
                      responses : Seq(BOOLEAN), left : 0..Timeout, retries : Nat] :
                 (s.phase = "noops" => s.noops >= 1) /\ (s.phase = "wait" => s.left >= 1)}

Flushed(f) == f.tx = << >> /\ f.rx = << >> /\ f.tx_counter = 0 /\ f.rx_counter = 0
              /\ f.latest_fc = 0

\* The flow control is in reset, and flushed, while the sequencer disables the stream.
Coupled(f, s) == (f.in_reset <=> StreamDisabled(s)) /\ (StreamDisabled(s) => Flushed(f))

\* Words waiting for the reader, and the sum it has announced or will announce.
Waiting(f) == Len(f.rx)
Total(f, s) == IF StreamDisabled(s) THEN RxDepth ELSE f.rx_counter

LEMMA FlowIs ==
  ASSUME NEW f \in Flows, NEW s \in Sequencers
  PROVE  /\ f.tx \in Seq(Word) /\ f.rx \in Seq(Word)
         /\ f.tx_counter \in Counters /\ f.rx_counter \in Counters /\ f.latest_fc \in Counters
         /\ f.in_reset \in BOOLEAN /\ f.channel4_enabled = TRUE
         /\ Waiting(f) \in Nat /\ Waiting(f) <= RxDepth
         /\ Total(f, s) \in Counters
         /\ Flushed(f) => Waiting(f) = 0
<1>1. /\ f.tx \in Seq(Word) /\ f.rx \in Seq(Word)
      /\ f.tx_counter \in Counters /\ f.rx_counter \in Counters /\ f.latest_fc \in Counters
      /\ f.in_reset \in BOOLEAN /\ f.channel4_enabled = TRUE /\ Len(f.rx) <= RxDepth
  BY DEF Flows
<1>2. Len(f.rx) \in Nat
  BY <1>1, LenProperties
<1>3. Flushed(f) => Len(f.rx) = 0
  BY EmptySeq DEF Flushed
<1> QED  BY <1>1, <1>2, <1>3, CountersAre DEF Waiting, Total

LEMMA SequencerIs ==
  ASSUME NEW s \in Sequencers
  PROVE  /\ s.held = FALSE /\ s.phase \in Phases /\ s.responses \in Seq(BOOLEAN)
         /\ s.retries \in Nat /\ s.all_streams \in BOOLEAN
         /\ StreamDisabled(s) <=> s.phase # "normal" \/ s.responses # << >>
         /\ BlockMessages(s) <=> s.phase \in {"noops", "request"}
BY DEF Sequencers, StreamDisabled, BlockMessages

\* A word is written: nothing that the peer depends on changes.
LEMMA WriteIs ==
  ASSUME NEW f \in Flows, NEW s \in Sequencers, Coupled(f, s), CanWrite(f), NEW word \in Word
  PROVE  /\ Write(f, word) \in Flows /\ Coupled(Write(f, word), s)
         /\ Write(f, word).tx_counter = f.tx_counter /\ Write(f, word).latest_fc = f.latest_fc
         /\ Waiting(Write(f, word)) = Waiting(f) /\ Total(Write(f, word), s) = Total(f, s)
<1> DEFINE f2 == Write(f, word)
<1>1. f.tx \in Seq(Word) /\ Len(f.tx) < TxDepth /\ ~f.in_reset
  BY FlowIs DEF CanWrite
<1>2. Append(f.tx, word) \in Seq(Word) /\ Len(Append(f.tx, word)) = Len(f.tx) + 1
  BY <1>1, AppendProperties
<1>3. Len(Append(f.tx, word)) <= TxDepth
  <2> DEFINE a == Len(f.tx)
             b == Len(Append(f.tx, word))
  <2>1. a \in Nat /\ a < TxDepth /\ b = a + 1 /\ TxDepth \in Nat
    BY <1>1, <1>2, LenProperties, CountersAre
  <2> HIDE DEF a, b
  <2>2. b <= TxDepth
    BY <2>1
  <2> QED  BY <2>2 DEF b
<1>4. f2 \in Flows
  BY <1>2, <1>3 DEF Flows, Write
<1>5. /\ f2.tx_counter = f.tx_counter /\ f2.latest_fc = f.latest_fc /\ f2.rx = f.rx
      /\ f2.rx_counter = f.rx_counter /\ f2.in_reset = f.in_reset
  BY DEF Flows, Write
<1> HIDE DEF f2
<1>6. Coupled(f2, s)
  BY <1>1, <1>5 DEF Coupled
<1> QED  BY <1>4, <1>5, <1>6 DEF f2, Waiting, Total

\* A word is read: one less waits, one more is announced.
LEMMA ReadIs ==
  ASSUME NEW f \in Flows, NEW s \in Sequencers, Coupled(f, s), f.rx # << >>
  PROVE  /\ Read(f) \in Flows /\ Coupled(Read(f), s)
         /\ Read(f).tx_counter = f.tx_counter /\ Read(f).latest_fc = f.latest_fc
         /\ Waiting(f) >= 1 /\ Waiting(Read(f)) = Waiting(f) - 1
         /\ ~StreamDisabled(s) /\ Total(Read(f), s) = (Total(f, s) + 1) % Modulus
<1> DEFINE f2 == Read(f)
           next == (f.rx_counter + 1) % Modulus
<1>1. f.rx \in Seq(Word) /\ Len(f.rx) <= RxDepth /\ f.rx_counter \in Counters
      /\ ~StreamDisabled(s) /\ ~f.in_reset
  BY DEF Flows, Coupled, Flushed
<1>2. Tail(f.rx) \in Seq(Word) /\ Len(Tail(f.rx)) = Len(f.rx) - 1 /\ Len(f.rx) \in Nat \ {0}
  BY <1>1, HeadTailProperties, EmptySeq
<1>3. Len(f.rx) >= 1 /\ Len(Tail(f.rx)) <= RxDepth
  <2> DEFINE a == Len(f.rx)
             b == Len(Tail(f.rx))
  <2>1. a \in Nat \ {0} /\ a <= RxDepth /\ b = a - 1 /\ RxDepth \in Nat
    BY <1>1, <1>2, CountersAre
  <2> HIDE DEF a, b
  <2>2. a >= 1 /\ b <= RxDepth
    BY <2>1
  <2> QED  BY <2>2 DEF a, b
<1>4. next \in Counters
  <2>1. \A c \in Counters : (c + 1) % Modulus \in Counters
    BY AddType, CountersAre
  <2> QED  BY <1>1, <2>1
<1> HIDE DEF next
<1>5. f2 \in Flows
  BY <1>2, <1>3, <1>4 DEF Flows, Read, next
<1>6. /\ f2.tx_counter = f.tx_counter /\ f2.latest_fc = f.latest_fc /\ f2.rx = Tail(f.rx)
      /\ f2.rx_counter = (f.rx_counter + 1) % Modulus /\ f2.in_reset = f.in_reset
  BY DEF Flows, Read
<1> HIDE DEF f2
<1>7. Coupled(f2, s)
  BY <1>1, <1>6 DEF Coupled
<1> QED  BY <1>1, <1>2, <1>3, <1>5, <1>6, <1>7 DEF f2, Waiting, Total

\* A message of words leaves: no longer than the credit there is.
LEMMA TransmitIs ==
  ASSUME NEW f \in Flows, NEW s \in Sequencers, Coupled(f, s), NextTransportLength(f) > 0
  PROVE  LET n == NextTransportLength(f)
             m == Transport(TransportWords(f))
         IN  /\ Transmit(f) \in Flows /\ Coupled(Transmit(f), s) /\ ~StreamDisabled(s)
             /\ n \in Nat /\ n <= Ahead(f.latest_fc, f.tx_counter)
             /\ Transmit(f).tx_counter = (f.tx_counter + n) % Modulus
             /\ Transmit(f).latest_fc = f.latest_fc
             /\ Waiting(Transmit(f)) = Waiting(f) /\ Total(Transmit(f), s) = Total(f, s)
             /\ m \in Messages /\ m.kind = "transport" /\ Size(m) = n
<1> DEFINE n == NextTransportLength(f)
           m == Transport(TransportWords(f))
           f2 == Transmit(f)
           a == AvailableCredits(f)
           b == Len(f.tx)
           u == (f.tx_counter + n) % Modulus
<1>1. f.tx \in Seq(Word) /\ b \in Nat /\ b <= TxDepth /\ MaxWords \in Nat
      /\ f.tx_counter \in Counters /\ f.latest_fc \in Counters
  BY MaxWordsAssumption, LenProperties DEF Flows
<1>2. a = Ahead(f.latest_fc, f.tx_counter) /\ a \in Nat /\ a < Modulus
  BY <1>1, AheadType DEF AvailableCredits, Ahead
<1>3. Active(f) /\ ~f.in_reset
  BY DEF NextTransportLength, Active
<1>4. n = CHOOSE k \in {a, b, MaxWords} : \A j \in {a, b, MaxWords} : k <= j
  BY <1>3 DEF NextTransportLength
<1>5. /\ n \in {a, b, MaxWords}
      /\ \A j \in {a, b, MaxWords} : n <= j
  <2> HIDE DEF a, b, n
  <2>1. \E k \in {a, b, MaxWords} : \A j \in {a, b, MaxWords} : k <= j
    BY <1>1, <1>2
  <2> QED  BY <1>4, <2>1
<1>6. n \in Nat /\ n <= a /\ n <= b /\ n <= MaxWords /\ n < Modulus
  <2> HIDE DEF a, b, n
  <2> QED  BY <1>1, <1>2, <1>5, CountersAre
<1> HIDE DEF n
<1>7. /\ SubSeq(f.tx, 1, n) \in Seq(Word) /\ Len(SubSeq(f.tx, 1, n)) = n
      /\ SubSeq(f.tx, n + 1, b) \in Seq(Word) /\ Len(SubSeq(f.tx, n + 1, b)) <= TxDepth
  <2> DEFINE c == Len(SubSeq(f.tx, 1, n))
             d == Len(SubSeq(f.tx, n + 1, b))
  <2>1. 1 \in 1..(b + 1) /\ n \in 0..b /\ n + 1 \in 1..(b + 1) /\ b \in 0..b
    <3> HIDE DEF b
    <3> QED  BY <1>1, <1>6
  <2>2. /\ SubSeq(f.tx, 1, n) \in Seq(Word) /\ SubSeq(f.tx, n + 1, b) \in Seq(Word)
        /\ c = (IF 1 <= n THEN n - 1 + 1 ELSE 0)
        /\ d = (IF n + 1 <= b THEN b - (n + 1) + 1 ELSE 0)
    BY <1>1, <2>1, SubSeqProperties
  <2> HIDE DEF b, c, d
  <2>3. c = n /\ d <= TxDepth
    BY <1>1, <1>6, <2>2, CountersAre
  <2> QED  BY <2>2, <2>3 DEF c, d
<1>8. u \in Counters
  BY <1>1, <1>6, AddType
<1>9. f2 = [f EXCEPT !.tx = SubSeq(f.tx, n + 1, b), !.tx_counter = u]
  BY DEF Transmit, n, Flows
<1> HIDE DEF u, b
<1>10. f2 \in Flows
  BY <1>7, <1>8, <1>9 DEF Flows
<1>11. /\ f2.tx_counter = u /\ f2.latest_fc = f.latest_fc /\ f2.rx = f.rx
       /\ f2.rx_counter = f.rx_counter /\ f2.in_reset = f.in_reset
  BY <1>9 DEF Flows
<1> HIDE DEF f2
<1>12. ~StreamDisabled(s) /\ Coupled(f2, s)
  BY <1>3, <1>11 DEF Coupled
<1>13. m = [kind |-> "transport", words |-> SubSeq(f.tx, 1, n)]
  BY DEF Transport, TransportWords, n
<1> HIDE DEF m
<1>14. m \in Messages /\ m.kind = "transport" /\ Size(m) = n
  <2> DEFINE q == SubSeq(f.tx, 1, n)
  <2>1. q \in Seq(Word) /\ Len(q) = n
    BY <1>7
  <2> HIDE DEF q
  <2>2. m = [kind |-> "transport", words |-> q]
    BY <1>13 DEF q
  <2>3. q \in {x \in Seq(Word) : Len(x) <= MaxWords}
    BY <1>6, <2>1
  <2>4. m \in Messages
    BY <2>2, <2>3 DEF Messages
  <2>5. m.kind = "transport" /\ m.words = q
    BY <2>2
  <2> QED  BY <2>1, <2>4, <2>5 DEF Size
<1>15. n <= Ahead(f.latest_fc, f.tx_counter)
  BY <1>2, <1>6
<1> HIDE DEF a
<1>16. Waiting(f2) = Waiting(f) /\ Total(f2, s) = Total(f, s)
  BY <1>11 DEF Waiting, Total
<1> QED  BY <1>6, <1>10, <1>11, <1>12, <1>14, <1>15, <1>16 DEF n, m, f2, u

\* An update is announced as it stands.
LEMMA SnapshotIs ==
  ASSUME NEW f \in Flows, NEW s \in Sequencers, Coupled(f, s), CreditSnapshot(f) # Nothing
  PROVE  LET m == Credit(CreditSnapshot(f))
         IN  /\ ~StreamDisabled(s)
             /\ m \in Messages /\ m.kind = "credit" /\ m.value = Total(f, s) /\ Size(m) = 0
<1> DEFINE m == Credit(CreditSnapshot(f))
           c == f.rx_counter
<1>1. Active(f) /\ CreditSnapshot(f) = c /\ c \in Counters
  BY FlowIs DEF CreditSnapshot
<1>2. ~StreamDisabled(s)
  BY <1>1 DEF Coupled, Active
<1> HIDE DEF c
<1>3. m = [kind |-> "credit", value |-> c]
  BY <1>1 DEF Credit
<1> HIDE DEF m
<1>4. m \in Messages /\ m.kind = "credit" /\ m.value = c
  BY <1>1, <1>3 DEF Messages
<1>5. Size(m) = 0
  BY <1>4 DEF Size
<1> QED  BY <1>2, <1>4, <1>5 DEF m, c, Total

\* Words arrive: they are put behind the others if they fit and the stream is active.
LEMMA ArrivalIs ==
  ASSUME NEW f \in Flows, NEW s \in Sequencers, Coupled(f, s),
         NEW m \in Messages, m.kind = "transport"
  PROVE  LET f2 == ReceiveTransport(f, m.words)
         IN  /\ f2 \in Flows /\ Coupled(f2, s)
             /\ f2.tx_counter = f.tx_counter /\ f2.latest_fc = f.latest_fc
             /\ Total(f2, s) = Total(f, s)
             /\ StreamDisabled(s) => Waiting(f2) = Waiting(f)
             /\ ~StreamDisabled(s) /\ Waiting(f) + Size(m) <= RxDepth
                  => Waiting(f2) = Waiting(f) + Size(m)
             /\ Waiting(f2) = Waiting(f) \/ Waiting(f2) = Waiting(f) + Size(m)
<1> DEFINE f2 == ReceiveTransport(f, m.words)
           words == m.words
           both == f.rx \o words
<1>1. /\ words \in Seq(Word) /\ Len(words) \in Nat /\ Size(m) = Len(words)
      /\ f.rx \in Seq(Word) /\ Len(f.rx) \in Nat
  BY LenProperties, FlowIs DEF Messages, Size
<1>2. Active(f) <=> ~StreamDisabled(s)
  BY FlowIs DEF Active, Coupled
<1> HIDE DEF words
<1>3. both \in Seq(Word) /\ Len(both) = Len(f.rx) + Len(words)
  BY <1>1, ConcatProperties
<1> HIDE DEF both
<1>4. CASE Active(f) /\ Fits(f, words)
  <2>1. f2 = [f EXCEPT !.rx = both]
    BY <1>4 DEF ReceiveTransport, words, both, Flows
  <2>2. Len(both) <= RxDepth
    BY <1>3, <1>4 DEF Fits
  <2> HIDE DEF f2
  <2>3. f2 \in Flows
    BY <1>3, <2>1, <2>2 DEF Flows
  <2>4. /\ f2.tx_counter = f.tx_counter /\ f2.latest_fc = f.latest_fc /\ f2.rx = both
        /\ f2.rx_counter = f.rx_counter /\ f2.in_reset = f.in_reset
    BY <2>1 DEF Flows
  <2>5. Coupled(f2, s)
    BY <1>2, <1>4, <2>4 DEF Coupled, Active
  <2> QED  BY <1>1, <1>2, <1>3, <1>4, <2>3, <2>4, <2>5 DEF f2, Waiting, Total
<1>5. CASE ~(Active(f) /\ Fits(f, words))
  <2>1. f2 = f
    BY <1>5 DEF ReceiveTransport, words
  <2>2. Waiting(f) + Size(m) <= RxDepth => Fits(f, words)
    BY <1>1 DEF Waiting, Fits
  <2> QED  BY <1>2, <1>5, <2>1, <2>2
<1> QED  BY <1>4, <1>5

\* An update arrives.
LEMMA UpdateIs ==
  ASSUME NEW f \in Flows, NEW s \in Sequencers, Coupled(f, s),
         NEW m \in Messages, m.kind = "credit"
  PROVE  LET f2 == ApplyCreditUpdate(f, m.value)
         IN  /\ f2 \in Flows /\ Coupled(f2, s)
             /\ f2.tx_counter = f.tx_counter
             /\ f2.latest_fc = IF StreamDisabled(s) THEN f.latest_fc ELSE m.value
             /\ Total(f2, s) = Total(f, s) /\ Waiting(f2) = Waiting(f)
<1> DEFINE f2 == ApplyCreditUpdate(f, m.value)
           c == m.value
<1>1. c \in Counters
  BY DEF Messages
<1> HIDE DEF c
<1>2. CASE StreamDisabled(s)
  <2>1. f2 = f
    BY <1>2 DEF ApplyCreditUpdate, Coupled
  <2> QED  BY <1>2, <2>1
<1>3. CASE ~StreamDisabled(s)
  <2>1. f2 = [f EXCEPT !.latest_fc = c]
    BY <1>3 DEF ApplyCreditUpdate, Coupled, c
  <2> HIDE DEF f2
  <2>2. f2 \in Flows
    BY <1>1, <2>1 DEF Flows
  <2>3. /\ f2.tx_counter = f.tx_counter /\ f2.latest_fc = c /\ f2.rx = f.rx
        /\ f2.rx_counter = f.rx_counter /\ f2.in_reset = f.in_reset
    BY <2>1 DEF Flows
  <2>4. Coupled(f2, s)
    BY <1>3, <2>3 DEF Coupled
  <2> QED  BY <1>3, <2>2, <2>3, <2>4 DEF f2, c, Waiting, Total
<1> QED  BY <1>2, <1>3

\* The flow control follows the sequencer: flushed while the stream is disabled, and
\* whole again, with a whole buffer to announce, when that ends.
LEMMA FollowIs ==
  ASSUME NEW f \in Flows, NEW old \in Sequencers, NEW s \in Sequencers, Coupled(f, old)
  PROVE  LET f2 == Follow(f, s)
         IN  /\ f2 \in Flows /\ Coupled(f2, s)
             /\ StreamDisabled(s) => Flushed(f2)
             /\ StreamDisabled(old)
                  => /\ f2.tx_counter = 0 /\ f2.latest_fc = 0 /\ Waiting(f2) = 0
                     /\ f.tx_counter = 0 /\ f.latest_fc = 0 /\ Waiting(f) = 0
                     /\ Total(f2, s) = RxDepth /\ Total(f, old) = RxDepth
             /\ ~StreamDisabled(old) /\ ~StreamDisabled(s) => f2 = f
<1> DEFINE f2 == Follow(f, s)
<1>1. << >> \in Seq(Word) /\ Len(<< >>) = 0 /\ 0 \in Counters /\ RxDepth \in Counters
      /\ 0 <= RxDepth /\ 0 <= TxDepth
  BY EmptySeq, CountersAre
<1>2. CASE StreamDisabled(s)
  <2>1. f2 = [FlowReset EXCEPT !.channel4_enabled = f.channel4_enabled]
    BY <1>2 DEF Follow, StreamReset
  <2>2. f2 = [tx |-> << >>, rx |-> << >>, tx_counter |-> 0, rx_counter |-> 0,
              latest_fc |-> 0, in_reset |-> TRUE, channel4_enabled |-> f.channel4_enabled]
    BY <2>1 DEF FlowReset
  <2>3. f.channel4_enabled \in {TRUE}
    BY DEF Flows
  <2> HIDE DEF f2
  <2>4. f2 \in Flows
    BY <1>1, <2>2, <2>3 DEF Flows
  <2>5. Flushed(f2) /\ f2.in_reset
    BY <2>2 DEF Flushed
  <2>6. Coupled(f2, s)
    BY <1>2, <2>5 DEF Coupled
  <2>7. Waiting(f2) = 0 /\ Total(f2, s) = RxDepth
    BY <1>1, <1>2, <2>5 DEF Waiting, Total, Flushed
  <2>8. StreamDisabled(old) => Flushed(f) /\ Waiting(f) = 0 /\ Total(f, old) = RxDepth
    BY <1>1 DEF Coupled, Waiting, Total, Flushed
  <2> QED  BY <1>2, <2>4, <2>5, <2>6, <2>7, <2>8 DEF f2, Flushed
<1>3. CASE ~StreamDisabled(s) /\ StreamDisabled(old)
  <2>1. f.in_reset /\ Flushed(f)
    BY <1>3 DEF Coupled
  <2>2. f2 = [f EXCEPT !.rx_counter = RxDepth, !.in_reset = FALSE]
    BY <1>3, <2>1 DEF Follow, ReleaseReset
  <2> HIDE DEF f2
  <2>3. f2 \in Flows
    BY <1>1, <2>2 DEF Flows
  <2>4. /\ f2.tx_counter = f.tx_counter /\ f2.latest_fc = f.latest_fc /\ f2.rx = f.rx
        /\ f2.rx_counter = RxDepth /\ f2.in_reset = FALSE
    BY <2>2 DEF Flows
  <2>5. Coupled(f2, s)
    BY <1>3, <2>4 DEF Coupled
  <2> QED  BY <1>1, <1>3, <2>1, <2>3, <2>4, <2>5 DEF f2, Flushed, Waiting, Total
<1>4. CASE ~StreamDisabled(s) /\ ~StreamDisabled(old)
  <2>1. f2 = f
    BY <1>4 DEF Follow, ReleaseReset, Coupled
  <2>2. Coupled(f2, s)
    BY <1>4, <2>1 DEF Coupled
  <2> QED  BY <1>4, <2>1, <2>2
<1> QED  BY <1>2, <1>3, <1>4

-------------------------------------------------------------------------------
(* What the sequencer does.                                                      *)

\* The values a run-out starts with.
LEMMA RunoutValues ==
  /\ NoOps \in 0..NoOps /\ NoOps >= 1 /\ 0 \in 0..Timeout /\ "noops" \in Phases
  /\ "noops" # "wait" /\ FALSE \in BOOLEAN
BY ResetAssumption DEF Phases

\* Firmware asks for a local reset.
LEMMA RequestIs ==
  ASSUME NEW s \in Sequencers
  PROVE  LET t == Request(s, FALSE)
         IN  /\ t \in Sequencers /\ t.phase = "noops" /\ t.responses = s.responses
             /\ t.retries = s.retries
<1>1. Request(s, FALSE) = [s EXCEPT !.all_streams = FALSE,
                                    !.phase = "noops", !.noops = NoOps, !.left = 0]
  BY DEF Request, StartRunout, Sequencers
<1> QED  BY <1>1, RunoutValues DEF Sequencers

\* Time passes in a wait: a step of the clock less is left, or a retry begins.
LEMMA AdvanceIs ==
  ASSUME NEW s \in Sequencers, s.phase = "wait"
  PROVE  LET t == Advance(s, 1)
         IN  /\ t \in Sequencers /\ t.responses = s.responses
             /\ \/ t.phase = "wait" /\ t.retries = s.retries
                \/ t.phase = "noops" /\ t.retries = s.retries + 1
<1>1. s.left \in 0..Timeout /\ s.retries \in Nat /\ s.all_streams \in BOOLEAN /\ Timeout \in Nat
  BY ResetAssumption DEF Sequencers
<1>2. CASE 1 < s.left
  <2> DEFINE l == s.left
  <2>1. l - 1 \in 0..Timeout /\ l - 1 >= 1
    <3>1. l \in 0..Timeout /\ 1 < l
      BY <1>1, <1>2
    <3> HIDE DEF l
    <3> QED  BY <1>1, <3>1
  <2>2. Advance(s, 1) = [s EXCEPT !.left = l - 1]
    BY <1>2 DEF Advance, Sequencers
  <2> HIDE DEF l
  <2> QED  BY <2>1, <2>2 DEF Sequencers
<1>3. CASE ~(1 < s.left)
  <2>1. Advance(s, 1) = [s EXCEPT !.retries = s.retries + 1,
                                  !.phase = "noops", !.noops = NoOps, !.left = 0]
    BY <1>3 DEF Advance, StartRunout, Sequencers
  <2>2. s.retries + 1 \in Nat
    BY <1>1
  <2> QED  BY <2>1, <2>2, RunoutValues DEF Sequencers
<1> QED  BY <1>2, <1>3

\* What is offered, and what remains once it was sent.
LEMMA ServiceIs ==
  ASSUME NEW s \in Sequencers, Offer(s) # "none"
  PROVE  LET t == Service(s)
         IN  /\ t \in Sequencers /\ t.retries = s.retries
             /\ Offer(s) \in {"noop", "request", "response"}
             /\ Offer(s) = "noop" => /\ s.phase = "noops" /\ t.phase \in {"noops", "request"}
                                     /\ t.responses = s.responses
             /\ Offer(s) = "request" => /\ s.phase = "request" /\ t.phase = "wait"
                                        /\ t.responses = s.responses
             /\ Offer(s) = "response" => /\ s.phase \in {"normal", "wait"} /\ t.phase = s.phase
                                         /\ s.responses # << >> /\ t.responses = Tail(s.responses)
<1>1. /\ s.held = FALSE /\ s.phase \in Phases /\ s.noops \in 0..NoOps /\ s.left \in 0..Timeout
      /\ s.responses \in Seq(BOOLEAN)
      /\ s.phase = "noops" => s.noops >= 1
  BY DEF Sequencers
<1>2. CASE s.phase = "noops"
  <2>1. Offer(s) = "noop"
    BY <1>1, <1>2 DEF Offer
  <2> DEFINE n == s.noops
             q == IF n = 1 THEN "request" ELSE "noops"
  <2>2. n - 1 \in 0..NoOps /\ (q = "noops" => n - 1 >= 1)
    <3>1. n \in 0..NoOps /\ n >= 1 /\ NoOps \in Nat
      BY <1>1, <1>2, ResetAssumption
    <3> HIDE DEF n
    <3> QED  BY <3>1
  <2>3. Service(s) = [s EXCEPT !.noops = n - 1, !.phase = q]
    BY <1>2, <2>1 DEF Service, Sequencers
  <2>4. q \in {"noops", "request"} /\ q \in Phases /\ q # "wait"
    BY DEF Phases
  <2> HIDE DEF n, q
  <2>5. Service(s) \in Sequencers
    BY <2>2, <2>3, <2>4 DEF Sequencers
  <2>6. /\ Service(s).phase = q /\ Service(s).responses = s.responses
        /\ Service(s).retries = s.retries
    BY <2>3 DEF Sequencers
  <2> QED  BY <1>2, <2>1, <2>4, <2>5, <2>6
<1>3. CASE s.phase = "request"
  <2>1. Offer(s) = "request"
    BY <1>1, <1>3 DEF Offer
  <2>2. Service(s) = [s EXCEPT !.phase = "wait", !.left = Timeout]
    BY <2>1 DEF Service
  <2>3. Timeout \in 0..Timeout /\ Timeout >= 1 /\ "wait" \in Phases /\ "wait" # "noops"
    BY ResetAssumption DEF Phases
  <2>4. Service(s) \in Sequencers
    BY <2>2, <2>3 DEF Sequencers
  <2>5. /\ Service(s).phase = "wait" /\ Service(s).responses = s.responses
        /\ Service(s).retries = s.retries
    BY <2>2 DEF Sequencers
  <2> QED  BY <1>3, <2>1, <2>4, <2>5
<1>4. CASE s.phase \in {"normal", "wait"}
  <2>1. Offer(s) = "response" /\ s.responses # << >>
    BY <1>1, <1>4 DEF Offer
  <2>2. Service(s) = [s EXCEPT !.responses = Tail(s.responses)]
    BY <2>1 DEF Service
  <2>3. Tail(s.responses) \in Seq(BOOLEAN)
    BY <1>1, <2>1, HeadTailProperties
  <2>4. Service(s) \in Sequencers
    BY <2>2, <2>3 DEF Sequencers
  <2>5. /\ Service(s).phase = s.phase /\ Service(s).responses = Tail(s.responses)
        /\ Service(s).retries = s.retries
    BY <2>2 DEF Sequencers
  <2> QED  BY <1>4, <2>1, <2>4, <2>5
<1> QED  BY <1>1, <1>2, <1>3, <1>4 DEF Phases

\* A request of the peer arrives.
LEMMA RequestedIs ==
  ASSUME NEW s \in Sequencers, NEW all \in BOOLEAN
  PROVE  LET t == ReceiveRequest(s, 0, all)
         IN  /\ t \in Sequencers /\ t.phase = s.phase /\ t.retries = s.retries
             /\ t.responses = Append(s.responses, all) /\ t.responses # << >>
<1>1. s.held = FALSE /\ s.responses \in Seq(BOOLEAN)
  BY DEF Sequencers
<1> DEFINE q == Append(s.responses, all)
<1>2. q \in Seq(BOOLEAN) /\ q # << >>
  <2>1. q \in Seq(BOOLEAN) /\ Len(q) = Len(s.responses) + 1 /\ Len(s.responses) \in Nat
    BY <1>1, AppendProperties, LenProperties
  <2>2. q = << >> => Len(q) = 0
    BY EmptySeq
  <2> DEFINE n == Len(s.responses)
             k == Len(q)
  <2>3. k = n + 1 /\ n \in Nat
    BY <2>1
  <2> HIDE DEF n, k
  <2>4. k # 0
    BY <2>3
  <2> QED  BY <2>1, <2>2, <2>4 DEF k
<1>3. ReceiveRequest(s, 0, all) = [s EXCEPT !.responses = q]
  BY <1>1 DEF ReceiveRequest
<1> HIDE DEF q
<1>4. ReceiveRequest(s, 0, all) \in Sequencers
  BY <1>2, <1>3 DEF Sequencers
<1>5. /\ ReceiveRequest(s, 0, all).phase = s.phase /\ ReceiveRequest(s, 0, all).retries = s.retries
      /\ ReceiveRequest(s, 0, all).responses = q
  BY <1>3 DEF Sequencers
<1> QED  BY <1>2, <1>4, <1>5 DEF q

\* A response of the peer arrives.
LEMMA RespondedIs ==
  ASSUME NEW s \in Sequencers, NEW all \in BOOLEAN
  PROVE  LET t == ReceiveResponse(s, SUCCESS, 0, all)
         IN  /\ t \in Sequencers /\ t.retries = s.retries /\ t.responses = s.responses
             /\ t.phase = IF s.phase = "wait" THEN "normal" ELSE s.phase
<1>1. s.held = FALSE
  BY DEF Sequencers
<1>2. CASE s.phase = "wait"
  <2>1. ReceiveResponse(s, SUCCESS, 0, all) = [s EXCEPT !.phase = "normal", !.left = 0]
    BY <1>1, <1>2 DEF ReceiveResponse
  <2>2. "normal" \in Phases /\ "normal" # "noops" /\ "normal" # "wait" /\ 0 \in 0..Timeout
    BY ResetAssumption DEF Phases
  <2> QED  BY <1>2, <2>1, <2>2 DEF Sequencers
<1>3. CASE s.phase # "wait"
  BY <1>3 DEF ReceiveResponse
<1> QED  BY <1>2, <1>3

-------------------------------------------------------------------------------
(* Two ends: f, s and w are flow control, sequencer and messages under way of one, *)
(* g, r and v those of its peer.                                                 *)

\* Neither is running out, and no request is under way.
InSync(phase, w) == phase \in {"normal", "wait"} /\ None(w, "request")

\* What waits for the reader and what it will still take fits in its buffer.
Bounded(w, g, r) ==
  r.phase \in {"normal", "wait"} => Waiting(g) + WordsHeeded(w, r.phase) <= RxDepth

\* What the reader announces, has, and will still take is a whole buffer.
Balanced(f, s, w, g, r, v) ==
  /\ Ahead(Total(g, r), f.tx_counter) + Waiting(g) + WordsHeeded(w, r.phase) = RxDepth
  /\ Rising(v, s.phase, f.latest_fc, Total(g, r), f.tx_counter)

\* From the first as the writer to its peer as the reader.
Linked(f, s, w, g, r, v) ==
  /\ Shook(s.phase, w, r.responses, v)
  /\ Bounded(w, g, r)
  /\ InSync(s.phase, w) /\ InSync(r.phase, v) => Balanced(f, s, w, g, r, v)

Joined(f, s, w, g, r, v) == Linked(f, s, w, g, r, v) /\ Linked(g, r, v, f, s, w)

EndOK(f, s, w) == f \in Flows /\ s \in Sequencers /\ w \in Seq(Messages) /\ Coupled(f, s)
Sound(f, s, w, g, r, v) == EndOK(f, s, w) /\ EndOK(g, r, v)

\* What a writer's link and a reader's link do not depend on.
LEMMA LinkedSame ==
  ASSUME NEW f, NEW f2, NEW s, NEW s2, NEW w, NEW g, NEW r, NEW v,
         s2.phase = s.phase
  PROVE  /\ Linked(f, s, w, g, r, v) /\ f2.tx_counter = f.tx_counter /\ f2.latest_fc = f.latest_fc
              => Linked(f2, s2, w, g, r, v)
         /\ Linked(g, r, v, f, s, w) /\ s2.responses = s.responses
              /\ Waiting(f2) = Waiting(f) /\ Total(f2, s2) = Total(f, s)
              => Linked(g, r, v, f2, s2, w)
BY DEF Linked, Bounded, Balanced

\* uart_credit.py enqueue: a word is written.
LEMMA PairWrite ==
  ASSUME NEW f, NEW s, NEW w, NEW g, NEW r, NEW v, Sound(f, s, w, g, r, v),
         CanWrite(f), NEW word \in Word
  PROVE  LET f2 == Write(f, word)
         IN  /\ Sound(f2, s, w, g, r, v)
             /\ Joined(f, s, w, g, r, v) => Joined(f2, s, w, g, r, v)
<1> DEFINE f2 == Write(f, word)
<1>1. /\ f2 \in Flows /\ Coupled(f2, s)
      /\ f2.tx_counter = f.tx_counter /\ f2.latest_fc = f.latest_fc
      /\ Waiting(f2) = Waiting(f) /\ Total(f2, s) = Total(f, s)
  BY WriteIs DEF Sound, EndOK
<1> HIDE DEF f2
<1>2. Sound(f2, s, w, g, r, v)
  BY <1>1 DEF Sound, EndOK
<1>3. Joined(f, s, w, g, r, v) => Joined(f2, s, w, g, r, v)
  BY <1>1, LinkedSame DEF Joined
<1> QED  BY <1>2, <1>3 DEF f2

\* uart_credit.py read: a word is read.
LEMMA PairRead ==
  ASSUME NEW f, NEW s, NEW w, NEW g, NEW r, NEW v, Sound(f, s, w, g, r, v),
         f.rx # << >>
  PROVE  LET f2 == Read(f)
         IN  /\ Sound(f2, s, w, g, r, v)
             /\ Joined(f, s, w, g, r, v) => Joined(f2, s, w, g, r, v)
<1> DEFINE f2 == Read(f)
           t == g.tx_counter
<1>1. /\ f2 \in Flows /\ Coupled(f2, s)
      /\ f2.tx_counter = f.tx_counter /\ f2.latest_fc = f.latest_fc
      /\ Waiting(f) >= 1 /\ Waiting(f2) = Waiting(f) - 1
      /\ Total(f2, s) = (Total(f, s) + 1) % Modulus
  BY ReadIs DEF Sound, EndOK
<1> HIDE DEF f2
<1>2. Sound(f2, s, w, g, r, v)
  BY <1>1 DEF Sound, EndOK
<1>3. /\ Waiting(f) \in Nat /\ Total(f, s) \in Counters /\ t \in Counters
      /\ g.latest_fc \in Counters
      /\ WordsHeeded(v, s.phase) \in Nat /\ Ahead(Total(f, s), t) \in Nat
  BY FlowIs, WordsType, AheadType DEF Sound, EndOK
<1> HIDE DEF t
<1>4. ASSUME Joined(f, s, w, g, r, v)  PROVE Linked(g, r, v, f2, s, w)
  <2>1. Linked(g, r, v, f, s, w)
    BY <1>4 DEF Joined
  <2>2. Shook(r.phase, v, s.responses, w)
    BY <2>1 DEF Linked
  <2> DEFINE h == Waiting(f)
             h2 == Waiting(f2)
             n == WordsHeeded(v, s.phase)
             a == Ahead(Total(f, s), t)
             a2 == Ahead(Total(f2, s), t)
  <2>3. Bounded(v, f2, s)
    <3> SUFFICES ASSUME s.phase \in {"normal", "wait"}  PROVE h2 + n <= RxDepth
      BY DEF Bounded
    <3>1. h + n <= RxDepth
      BY <2>1 DEF Linked, Bounded
    <3>2. h2 = h - 1 /\ h \in Nat /\ n \in Nat /\ RxDepth \in Nat
      BY <1>1, <1>3, CountersAre
    <3> HIDE DEF h, h2, n
    <3> QED  BY <3>1, <3>2
  <2>4. ASSUME Balanced(g, r, v, f, s, w)  PROVE Balanced(g, r, v, f2, s, w)
    <3>1. a + h + n = RxDepth /\ Rising(w, r.phase, g.latest_fc, Total(f, s), t)
      BY <2>4 DEF Balanced, t
    <3>2. a < Modulus - 1
      <4>1. a \in Nat /\ h \in Nat /\ n \in Nat /\ h >= 1 /\ RxDepth < Modulus
            /\ RxDepth \in Nat /\ Modulus \in Nat
        BY <1>1, <1>3, CountersAre
      <4> HIDE DEF a, h, n
      <4> QED  BY <3>1, <4>1
    <3>3. a2 = a + 1
      BY <1>1, <1>3, <3>2, AheadAfterReading
    <3>4. a2 + h2 + n = RxDepth
      <4>1. h2 = h - 1 /\ a \in Nat /\ h \in Nat /\ n \in Nat
        BY <1>1, <1>3
      <4> HIDE DEF a, a2, h, h2, n
      <4> QED  BY <3>1, <3>3, <4>1
    <3>5. Rising(w, r.phase, g.latest_fc, Total(f2, s), t)
      <4>1. w \in Seq(Messages)
        BY DEF Sound, EndOK
      <4> QED  BY <1>1, <1>3, <3>1, <3>2, <4>1, RisingRead
    <3> QED  BY <3>4, <3>5 DEF Balanced, t
  <2> QED  BY <2>1, <2>2, <2>3, <2>4 DEF Linked
<1>5. Joined(f, s, w, g, r, v) => Joined(f2, s, w, g, r, v)
  BY <1>1, <1>4, LinkedSame DEF Joined
<1> QED  BY <1>2, <1>5 DEF f2

\* uart_reset.py request: a local reset begins.
LEMMA PairReset ==
  ASSUME NEW f, NEW s, NEW w, NEW g, NEW r, NEW v, Sound(f, s, w, g, r, v),
         s.phase = "normal"
  PROVE  LET s2 == Request(s, FALSE)
             f2 == Follow(f, s2)
         IN  /\ Sound(f2, s2, w, g, r, v)
             /\ Joined(f, s, w, g, r, v) => Joined(f2, s2, w, g, r, v)
<1> DEFINE s2 == Request(s, FALSE)
           f2 == Follow(f, s2)
<1>1. s2 \in Sequencers /\ s2.phase = "noops" /\ s2.responses = s.responses
  BY RequestIs DEF Sound, EndOK
<1> HIDE DEF s2
<1>2. f2 \in Flows /\ Coupled(f2, s2)
  BY <1>1, FollowIs DEF Sound, EndOK
<1> HIDE DEF f2
<1>3. Sound(f2, s2, w, g, r, v)
  BY <1>1, <1>2 DEF Sound, EndOK
<1>4. ASSUME Joined(f, s, w, g, r, v)  PROVE Joined(f2, s2, w, g, r, v)
  <2>1. /\ Shook(s.phase, w, r.responses, v) /\ Shook(r.phase, v, s2.responses, w)
        /\ Bounded(w, g, r)
    BY <1>1, <1>4 DEF Joined, Linked
  <2>2. r.responses \in Seq(BOOLEAN) /\ w \in Seq(Messages) /\ v \in Seq(Messages)
    BY SequencerIs DEF Sound, EndOK
  <2>3. Shook(s2.phase, w, r.responses, v)
    BY <1>1, <2>1, <2>2, ShookOrdinary
  <2>4. Bounded(v, f2, s2) /\ ~InSync(s2.phase, w)
    BY <1>1 DEF Bounded, InSync
  <2> QED  BY <2>1, <2>3, <2>4 DEF Joined, Linked
<1> QED  BY <1>3, <1>4 DEF f2, s2

\* A message of words leaves.  Where it will be heeded, the ends are in step and it is paid
\* for; where they are not, the peer waits and will drop it.
LEMMA PairTransport ==
  ASSUME NEW f, NEW s, NEW w, NEW g, NEW r, NEW v, Sound(f, s, w, g, r, v),
         NextTransportLength(f) > 0
  PROVE  LET f2 == Transmit(f)
             w2 == Append(w, Transport(TransportWords(f)))
         IN  /\ Sound(f2, s, w2, g, r, v)
             /\ Joined(f, s, w, g, r, v) => Joined(f2, s, w2, g, r, v)
<1> DEFINE m == Transport(TransportWords(f))
           n == NextTransportLength(f)
           f2 == Transmit(f)
           w2 == Append(w, m)
           t == f.tx_counter
<1>1. /\ f2 \in Flows /\ Coupled(f2, s) /\ ~StreamDisabled(s)
      /\ n \in Nat /\ n <= Ahead(f.latest_fc, t)
      /\ f2.tx_counter = (t + n) % Modulus /\ f2.latest_fc = f.latest_fc
      /\ Waiting(f2) = Waiting(f) /\ Total(f2, s) = Total(f, s)
      /\ m \in Messages /\ m.kind = "transport" /\ Size(m) = n
  BY TransmitIs DEF Sound, EndOK
<1>2. w \in Seq(Messages) /\ v \in Seq(Messages) /\ r.responses \in Seq(BOOLEAN)
      /\ s.responses \in Seq(BOOLEAN) /\ s.phase = "normal" /\ s.responses = << >>
  BY <1>1, SequencerIs DEF Sound, EndOK
<1> HIDE DEF m, n, f2
<1>3. /\ w2 \in Seq(Messages)
      /\ None(w2, "request") <=> None(w, "request")
      /\ WordsHeeded(w2, r.phase) = WordsHeeded(w, r.phase)
           + (IF r.phase = "wait" /\ None(w, "response") THEN 0 ELSE n)
  <2>1. WordsHeeded(w2, r.phase) = WordsHeeded(w, r.phase)
          + (IF r.phase = "wait" /\ None(w, "response") THEN 0 ELSE Size(m))
    BY <1>1, <1>2, WordsAppended
  <2> QED  BY <1>1, <1>2, <2>1, Appended, KindsAppended
<1>4. /\ Waiting(g) \in Nat /\ Total(g, r) \in Counters /\ t \in Counters
      /\ f.latest_fc \in Counters /\ g.latest_fc \in Counters /\ g.tx_counter \in Counters
      /\ Total(f, s) \in Counters
      /\ WordsHeeded(w, r.phase) \in Nat /\ Ahead(Total(g, r), t) \in Nat
      /\ Ahead(f.latest_fc, t) \in Nat /\ RxDepth \in Nat
  BY <1>2, FlowIs, WordsType, AheadType, CountersAre DEF Sound, EndOK
<1> HIDE DEF w2, t
<1>5. Sound(f2, s, w2, g, r, v)
  BY <1>1, <1>3 DEF Sound, EndOK
<1>6. ASSUME Joined(f, s, w, g, r, v)  PROVE Joined(f2, s, w2, g, r, v)
  <2>1. /\ Shook(s.phase, w, r.responses, v) /\ Shook(r.phase, v, s.responses, w)
        /\ Bounded(w, g, r) /\ Bounded(v, f, s)
        /\ InSync(s.phase, w) /\ InSync(r.phase, v) => Balanced(f, s, w, g, r, v)
        /\ InSync(s.phase, w) /\ InSync(r.phase, v) => Balanced(g, r, v, f, s, w)
    BY <1>6 DEF Joined, Linked
  <2>2. Shook(s.phase, w2, r.responses, v) /\ Shook(r.phase, v, s.responses, w2)
    BY <1>1, <1>2, <2>1, ShookOrdinary, ShookBack DEF w2
  <2>3. InSync(s.phase, w) /\ InSync(s.phase, w2)
    BY <1>2, <1>3, <2>1, ShookTells DEF InSync
  <2>4. /\ ~None(v, "request") => r.phase = "wait" /\ None(w, "response")
        /\ InSync(r.phase, v) => ~(r.phase = "wait" /\ None(w, "response"))
    BY <1>2, <2>1, ShookTells DEF InSync
  <2> DEFINE h == Waiting(g)
             c == WordsHeeded(w, r.phase)
             c2 == WordsHeeded(w2, r.phase)
             l == Ahead(f.latest_fc, t)
             a == Ahead(Total(g, r), t)
             a2 == Ahead(Total(g, r), (t + n) % Modulus)
  <2>5. ASSUME InSync(r.phase, v)
        PROVE  a + h + c = RxDepth /\ l <= a /\ Rising(v, s.phase, f.latest_fc, Total(g, r), t)
    BY <2>1, <2>3, <2>5 DEF Balanced, Rising, t
  <2>6. Bounded(w2, g, r)
    <3> SUFFICES ASSUME r.phase \in {"normal", "wait"}  PROVE h + c2 <= RxDepth
      BY DEF Bounded
    <3>1. CASE r.phase = "wait" /\ None(w, "response")
      <4>1. h + c <= RxDepth /\ c2 = c + 0 /\ c \in Nat
        BY <1>3, <1>4, <2>1, <3>1 DEF Bounded
      <4> HIDE DEF h, c, c2
      <4>2. c2 = c
        BY <4>1
      <4> QED  BY <4>1, <4>2
    <3>2. CASE ~(r.phase = "wait" /\ None(w, "response"))
      <4>1. InSync(r.phase, v)
        BY <2>4, <3>2 DEF InSync
      <4>2. a + h + c = RxDepth /\ l <= a /\ n <= l /\ c2 = c + n
        BY <1>1, <1>3, <2>5, <3>2, <4>1
      <4>3. a \in Nat /\ h \in Nat /\ c \in Nat /\ n \in Nat /\ l \in Nat
        BY <1>1, <1>4
      <4> HIDE DEF a, h, c, c2, l
      <4> QED  BY <4>2, <4>3
    <3> QED  BY <3>1, <3>2
  <2>7. ASSUME InSync(r.phase, v)  PROVE Balanced(f2, s, w2, g, r, v)
    <3>1. a + h + c = RxDepth /\ l <= a /\ n <= l /\ c2 = c + n
      BY <1>1, <1>3, <2>4, <2>5, <2>7
    <3>2. a \in Nat /\ h \in Nat /\ c \in Nat /\ n \in Nat /\ l \in Nat
      BY <1>1, <1>4
    <3>3. n <= a
      <4> HIDE DEF a, l
      <4> QED  BY <3>1, <3>2
    <3>4. a2 = a - n
      BY <1>1, <1>4, <3>3, AheadAfterSending
    <3>5. a2 + h + c2 = RxDepth
      <4> HIDE DEF a, a2, h, c, c2, l
      <4> QED  BY <3>1, <3>2, <3>4
    <3>6. Rising(v, s.phase, f.latest_fc, Total(g, r), (t + n) % Modulus)
      BY <1>1, <1>2, <1>4, <2>5, <2>7, RisingSent
    <3> QED  BY <1>1, <3>5, <3>6 DEF Balanced
  <2>8. Bounded(v, f2, s)
    BY <1>1, <2>1 DEF Bounded
  <2>9. ASSUME InSync(r.phase, v)  PROVE Balanced(g, r, v, f2, s, w2)
    <3>1. Rising(w, r.phase, g.latest_fc, Total(f, s), g.tx_counter)
      BY <2>1, <2>3, <2>9 DEF Balanced
    <3>2. Rising(w2, r.phase, g.latest_fc, Total(f, s), g.tx_counter)
      BY <1>1, <1>2, <1>4, <3>1, RisingAppended DEF w2
    <3> QED  BY <1>1, <2>1, <2>3, <2>9, <3>2 DEF Balanced
  <2> QED  BY <2>2, <2>6, <2>7, <2>8, <2>9 DEF Joined, Linked
<1> QED  BY <1>5, <1>6 DEF f2, w2, m

\* An update leaves: it is up to date.
LEMMA PairUpdateSent ==
  ASSUME NEW f, NEW s, NEW w, NEW g, NEW r, NEW v, Sound(f, s, w, g, r, v),
         CreditSnapshot(f) # Nothing
  PROVE  LET w2 == Append(w, Credit(CreditSnapshot(f)))
         IN  /\ Sound(f, s, w2, g, r, v)
             /\ Joined(f, s, w, g, r, v) => Joined(f, s, w2, g, r, v)
<1> DEFINE m == Credit(CreditSnapshot(f))
           w2 == Append(w, m)
<1>1. /\ ~StreamDisabled(s)
      /\ m \in Messages /\ m.kind = "credit" /\ m.value = Total(f, s) /\ Size(m) = 0
  BY SnapshotIs DEF Sound, EndOK
<1>2. w \in Seq(Messages) /\ v \in Seq(Messages) /\ r.responses \in Seq(BOOLEAN)
      /\ s.responses \in Seq(BOOLEAN) /\ s.phase = "normal"
  BY <1>1, SequencerIs DEF Sound, EndOK
<1> HIDE DEF m
<1>3. /\ w2 \in Seq(Messages)
      /\ None(w2, "request") <=> None(w, "request")
  BY <1>1, <1>2, Appended, KindsAppended
<1>4. WordsHeeded(w2, r.phase) = WordsHeeded(w, r.phase)
  <2> DEFINE c == WordsHeeded(w, r.phase)
  <2>1. WordsHeeded(w2, r.phase) = c + 0 /\ c \in Nat
    BY <1>1, <1>2, WordsAppended, WordsType
  <2> HIDE DEF c
  <2>2. WordsHeeded(w2, r.phase) = c
    BY <2>1
  <2> QED  BY <2>2 DEF c
<1> HIDE DEF w2
<1>5. Sound(f, s, w2, g, r, v)
  BY <1>3 DEF Sound, EndOK
<1>6. ASSUME Joined(f, s, w, g, r, v)  PROVE Joined(f, s, w2, g, r, v)
  <2>1. /\ Shook(s.phase, w, r.responses, v) /\ Shook(r.phase, v, s.responses, w)
        /\ Bounded(w, g, r) /\ Bounded(v, f, s)
        /\ InSync(s.phase, w) /\ InSync(r.phase, v) => Balanced(f, s, w, g, r, v)
        /\ InSync(s.phase, w) /\ InSync(r.phase, v) => Balanced(g, r, v, f, s, w)
    BY <1>6 DEF Joined, Linked
  <2>2. Shook(s.phase, w2, r.responses, v) /\ Shook(r.phase, v, s.responses, w2)
    BY <1>1, <1>2, <2>1, ShookOrdinary, ShookBack DEF w2
  <2>3. InSync(s.phase, w2) <=> InSync(s.phase, w)
    BY <1>3 DEF InSync
  <2>4. Bounded(w2, g, r)
    BY <1>4, <2>1 DEF Bounded
  <2>5. Balanced(f, s, w, g, r, v) => Balanced(f, s, w2, g, r, v)
    BY <1>4 DEF Balanced
  <2>6. ASSUME Balanced(g, r, v, f, s, w)  PROVE Balanced(g, r, v, f, s, w2)
    <3>1. Rising(w, r.phase, g.latest_fc, Total(f, s), g.tx_counter)
      BY <2>6 DEF Balanced
    <3>2. g.latest_fc \in Counters /\ Total(f, s) \in Counters /\ g.tx_counter \in Counters
      BY FlowIs DEF Sound, EndOK
    <3>3. Rising(w2, r.phase, g.latest_fc, Total(f, s), g.tx_counter)
      BY <1>1, <1>2, <3>1, <3>2, RisingAppended DEF w2
    <3> QED  BY <2>6, <3>3 DEF Balanced
  <2> QED  BY <2>1, <2>2, <2>3, <2>4, <2>5, <2>6 DEF Joined, Linked
<1> QED  BY <1>5, <1>6 DEF w2, m

\* uart_reset.py service: a word of the run-out leaves.
LEMMA PairNoop ==
  ASSUME NEW f, NEW s, NEW w, NEW g, NEW r, NEW v, Sound(f, s, w, g, r, v),
         Offer(s) = "noop"
  PROVE  LET s2 == Service(s)
             f2 == Follow(f, s2)
         IN  /\ Sound(f2, s2, w, g, r, v)
             /\ Joined(f, s, w, g, r, v) => Joined(f2, s2, w, g, r, v)
<1> DEFINE s2 == Service(s)
           f2 == Follow(f, s2)
<1>1. /\ s2 \in Sequencers /\ s.phase = "noops" /\ s2.phase \in {"noops", "request"}
      /\ s2.responses = s.responses
  BY ServiceIs DEF Sound, EndOK
<1> HIDE DEF s2
<1>2. f2 \in Flows /\ Coupled(f2, s2)
  BY <1>1, FollowIs DEF Sound, EndOK
<1> HIDE DEF f2
<1>3. Sound(f2, s2, w, g, r, v)
  BY <1>1, <1>2 DEF Sound, EndOK
<1>4. ASSUME Joined(f, s, w, g, r, v)  PROVE Joined(f2, s2, w, g, r, v)
  <2>1. /\ Shook(s.phase, w, r.responses, v) /\ Shook(r.phase, v, s2.responses, w)
        /\ Bounded(w, g, r)
    BY <1>1, <1>4 DEF Joined, Linked
  <2>2. r.responses \in Seq(BOOLEAN) /\ w \in Seq(Messages) /\ v \in Seq(Messages)
    BY SequencerIs DEF Sound, EndOK
  <2>3. s.phase # "wait" /\ s2.phase # "wait" /\ s2.phase \notin {"normal", "wait"}
    BY <1>1
  <2>4. Shook(s2.phase, w, r.responses, v)
    BY <2>1, <2>2, <2>3, ShookOrdinary
  <2>5. Bounded(v, f2, s2) /\ ~InSync(s2.phase, w)
    BY <2>3 DEF Bounded, InSync
  <2> QED  BY <2>1, <2>4, <2>5 DEF Joined, Linked
<1> QED  BY <1>3, <1>4 DEF f2, s2

\* The request leaves.
LEMMA PairRequest ==
  ASSUME NEW f, NEW s, NEW w, NEW g, NEW r, NEW v, Sound(f, s, w, g, r, v),
         Offer(s) = "request", NEW m \in Messages, m.kind = "request"
  PROVE  LET s2 == Service(s)
             f2 == Follow(f, s2)
             w2 == Append(w, m)
         IN  /\ Sound(f2, s2, w2, g, r, v)
             /\ Joined(f, s, w, g, r, v) => Joined(f2, s2, w2, g, r, v)
<1> DEFINE s2 == Service(s)
           f2 == Follow(f, s2)
           w2 == Append(w, m)
<1>1. /\ s2 \in Sequencers /\ s.phase = "request" /\ s2.phase = "wait"
      /\ s2.responses = s.responses
  BY ServiceIs DEF Sound, EndOK
<1> HIDE DEF s2
<1>2. StreamDisabled(s)
  BY <1>1, SequencerIs DEF Sound, EndOK
<1>3. f2 \in Flows /\ Coupled(f2, s2) /\ Waiting(f2) = 0
  BY <1>1, <1>2, FollowIs DEF Sound, EndOK
<1> HIDE DEF f2
<1>4. r.responses \in Seq(BOOLEAN) /\ s.responses \in Seq(BOOLEAN)
      /\ w \in Seq(Messages) /\ v \in Seq(Messages)
  BY SequencerIs DEF Sound, EndOK
<1>5. w2 \in Seq(Messages) /\ ~None(w2, "request")
  BY <1>4, Appended, KindsAppended
<1>6. WordsHeeded(w2, r.phase) = WordsHeeded(w, r.phase)
  <2> DEFINE c == WordsHeeded(w, r.phase)
  <2>1. Size(m) = 0
    BY DEF Size
  <2>2. WordsHeeded(w2, r.phase) = c + 0 /\ c \in Nat
    BY <1>4, <2>1, WordsAppended, WordsType
  <2> HIDE DEF c
  <2>3. WordsHeeded(w2, r.phase) = c
    BY <2>2
  <2> QED  BY <2>3 DEF c
<1>7. Sound(f2, s2, w2, g, r, v)
  BY <1>1, <1>3, <1>5 DEF Sound, EndOK
<1>8. ASSUME Joined(f, s, w, g, r, v)  PROVE Joined(f2, s2, w2, g, r, v)
  <2>1. /\ Shook(s.phase, w, r.responses, v) /\ Shook(r.phase, v, s2.responses, w)
        /\ Bounded(w, g, r)
    BY <1>1, <1>8 DEF Joined, Linked
  <2>2. Shook(s2.phase, w2, r.responses, v)
    BY <1>1, <1>4, <2>1, ShookRequest
  <2>3. Shook(r.phase, v, s2.responses, w2)
    BY <1>1, <1>4, <2>1, ShookBack
  <2>4. None(v, "response")
    BY <1>1, <1>4, <2>1, ShookTells
  <2>5. WordsHeeded(v, s2.phase) = 0
    BY <1>1, <1>4, <2>4, WordsType
  <2>6. Bounded(v, f2, s2)
    BY <1>3, <2>5, CountersAre DEF Bounded
  <2>7. Bounded(w2, g, r)
    BY <1>6, <2>1 DEF Bounded
  <2>8. ~InSync(s2.phase, w2)
    BY <1>5 DEF InSync
  <2> QED  BY <2>2, <2>3, <2>6, <2>7, <2>8 DEF Joined, Linked
<1> QED  BY <1>7, <1>8 DEF f2, s2, w2

\* A response leaves.
LEMMA PairResponse ==
  ASSUME NEW f, NEW s, NEW w, NEW g, NEW r, NEW v, Sound(f, s, w, g, r, v),
         Offer(s) = "response", NEW m \in Messages, m.kind = "response"
  PROVE  LET s2 == Service(s)
             f2 == Follow(f, s2)
             w2 == Append(w, m)
         IN  /\ Sound(f2, s2, w2, g, r, v)
             /\ Joined(f, s, w, g, r, v) => Joined(f2, s2, w2, g, r, v)
<1> DEFINE s2 == Service(s)
           f2 == Follow(f, s2)
           w2 == Append(w, m)
<1>1. /\ s2 \in Sequencers /\ s2.phase = s.phase
      /\ s.responses # << >> /\ s2.responses = Tail(s.responses)
  BY ServiceIs DEF Sound, EndOK
<1> HIDE DEF s2
<1>2. StreamDisabled(s)
  BY <1>1, SequencerIs DEF Sound, EndOK
<1>3. /\ f2 \in Flows /\ Coupled(f2, s2)
      /\ f2.tx_counter = f.tx_counter /\ f2.latest_fc = f.latest_fc
      /\ Waiting(f2) = Waiting(f) /\ Total(f2, s2) = Total(f, s)
  <2> DEFINE a == f.tx_counter
             b == f.latest_fc
  <2>1. /\ f2 \in Flows /\ Coupled(f2, s2)
        /\ f2.tx_counter = 0 /\ f2.latest_fc = 0 /\ Waiting(f2) = 0
        /\ a = 0 /\ b = 0 /\ Waiting(f) = 0
        /\ Total(f2, s2) = RxDepth /\ Total(f, s) = RxDepth
    BY <1>1, <1>2, FollowIs DEF Sound, EndOK
  <2> QED  BY <2>1
<1> HIDE DEF f2
<1>4. r.responses \in Seq(BOOLEAN) /\ s.responses \in Seq(BOOLEAN)
      /\ w \in Seq(Messages) /\ v \in Seq(Messages)
  BY SequencerIs DEF Sound, EndOK
<1>5. w2 \in Seq(Messages) /\ (None(w2, "request") <=> None(w, "request"))
  BY <1>4, Appended, KindsAppended
<1>6. WordsHeeded(w2, r.phase) = WordsHeeded(w, r.phase)
  <2> DEFINE c == WordsHeeded(w, r.phase)
  <2>1. Size(m) = 0
    BY DEF Size
  <2>2. WordsHeeded(w2, r.phase) = c + 0 /\ c \in Nat
    BY <1>4, <2>1, WordsAppended, WordsType
  <2> HIDE DEF c
  <2>3. WordsHeeded(w2, r.phase) = c
    BY <2>2
  <2> QED  BY <2>3 DEF c
<1>7. Sound(f2, s2, w2, g, r, v)
  BY <1>1, <1>3, <1>5 DEF Sound, EndOK
<1>8. ASSUME Joined(f, s, w, g, r, v)  PROVE Joined(f2, s2, w2, g, r, v)
  <2>1. /\ Shook(s.phase, w, r.responses, v) /\ Shook(r.phase, v, s.responses, w)
        /\ Bounded(w, g, r) /\ Bounded(v, f, s)
        /\ InSync(s.phase, w) /\ InSync(r.phase, v) => Balanced(f, s, w, g, r, v)
        /\ InSync(s.phase, w) /\ InSync(r.phase, v) => Balanced(g, r, v, f, s, w)
    BY <1>8 DEF Joined, Linked
  <2>2. Shook(s2.phase, w2, r.responses, v)
    BY <1>1, <1>4, <2>1, ShookAnswers
  <2>3. Shook(r.phase, v, s2.responses, w2)
    <3>1. /\ Shook(r.phase, v, s.responses, w) /\ s.responses # << >>
          /\ s2.responses = Tail(s.responses)
      BY <1>1, <2>1
    <3>2. Shook(r.phase, v, Tail(s.responses), Append(w, m))
      BY <1>4, <3>1, ShookAnswered
    <3> QED  BY <3>1, <3>2
  <2>4. Bounded(w2, g, r) /\ Bounded(v, f2, s2)
    BY <1>1, <1>3, <1>6, <2>1 DEF Bounded
  <2>5. InSync(s2.phase, w2) <=> InSync(s.phase, w)
    BY <1>1, <1>5 DEF InSync
  <2>6. Balanced(f, s, w, g, r, v) => Balanced(f2, s2, w2, g, r, v)
    BY <1>1, <1>3, <1>6 DEF Balanced
  <2>7. ASSUME Balanced(g, r, v, f, s, w)  PROVE Balanced(g, r, v, f2, s2, w2)
    <3>1. Rising(w, r.phase, g.latest_fc, Total(f, s), g.tx_counter)
      BY <2>7 DEF Balanced
    <3>2. g.latest_fc \in Counters /\ Total(f, s) \in Counters /\ g.tx_counter \in Counters
      BY FlowIs DEF Sound, EndOK
    <3>3. Rising(w2, r.phase, g.latest_fc, Total(f, s), g.tx_counter)
      BY <1>4, <3>1, <3>2, RisingAppended
    <3> QED  BY <1>1, <1>3, <2>7, <3>3 DEF Balanced
  <2> QED  BY <2>1, <2>2, <2>3, <2>4, <2>5, <2>6, <2>7 DEF Joined, Linked
<1> QED  BY <1>7, <1>8 DEF f2, s2, w2

\* Time passes in a wait, and its deadline is not reached.
LEMMA PairWait ==
  ASSUME NEW f, NEW s, NEW w, NEW g, NEW r, NEW v, Sound(f, s, w, g, r, v),
         s.phase = "wait"
  PROVE  LET s2 == Advance(s, 1)
             f2 == Follow(f, s2)
         IN  /\ Sound(f2, s2, w, g, r, v)
             /\ (s2.phase = "wait" /\ s2.retries = s.retries) \/ s2.retries = s.retries + 1
             /\ s2.phase = "wait" /\ Joined(f, s, w, g, r, v) => Joined(f2, s2, w, g, r, v)
<1> DEFINE s2 == Advance(s, 1)
           f2 == Follow(f, s2)
<1>1. /\ s2 \in Sequencers /\ s2.responses = s.responses
      /\ (s2.phase = "wait" /\ s2.retries = s.retries) \/ s2.retries = s.retries + 1
  BY AdvanceIs DEF Sound, EndOK
<1> HIDE DEF s2
<1>2. StreamDisabled(s)
  BY SequencerIs DEF Sound, EndOK
<1>3. /\ f2 \in Flows /\ Coupled(f2, s2)
      /\ f2.tx_counter = f.tx_counter /\ f2.latest_fc = f.latest_fc
      /\ Waiting(f2) = Waiting(f) /\ Total(f2, s2) = Total(f, s)
  BY <1>1, <1>2, FollowIs DEF Sound, EndOK
<1> HIDE DEF f2
<1>4. Sound(f2, s2, w, g, r, v)
  BY <1>1, <1>3 DEF Sound, EndOK
<1>5. s2.phase = "wait" /\ Joined(f, s, w, g, r, v) => Joined(f2, s2, w, g, r, v)
  BY <1>1, <1>3, LinkedSame DEF Joined
<1> QED  BY <1>1, <1>4, <1>5 DEF f2, s2

\* uart_credit.py receive_transport: words of the peer arrive.  They fit.
LEMMA PairArrival ==
  ASSUME NEW f, NEW s, NEW w, NEW g, NEW r, NEW v, Sound(f, s, w, g, r, v),
         v # << >>, Head(v).kind = "transport"
  PROVE  LET f2 == ReceiveTransport(f, Head(v).words)
         IN  /\ Sound(f2, s, w, g, r, Tail(v))
             /\ Joined(f, s, w, g, r, v) => Joined(f2, s, w, g, r, Tail(v))
<1> DEFINE m == Head(v)
           v2 == Tail(v)
           f2 == ReceiveTransport(f, m.words)
<1>1. v2 \in Seq(Messages) /\ m \in Messages
  BY Received DEF Sound, EndOK
<1>2. /\ f2 \in Flows /\ Coupled(f2, s)
      /\ f2.tx_counter = f.tx_counter /\ f2.latest_fc = f.latest_fc
      /\ Total(f2, s) = Total(f, s)
      /\ StreamDisabled(s) => Waiting(f2) = Waiting(f)
      /\ ~StreamDisabled(s) /\ Waiting(f) + Size(m) <= RxDepth
           => Waiting(f2) = Waiting(f) + Size(m)
      /\ Waiting(f2) = Waiting(f) \/ Waiting(f2) = Waiting(f) + Size(m)
  BY <1>1, ArrivalIs DEF Sound, EndOK
<1>3. r.responses \in Seq(BOOLEAN) /\ s.responses \in Seq(BOOLEAN)
      /\ w \in Seq(Messages) /\ v \in Seq(Messages)
      /\ (StreamDisabled(s) <=> s.phase # "normal" \/ s.responses # << >>)
  BY SequencerIs DEF Sound, EndOK
<1>4. WordsHeeded(v, s.phase) = WordsHeeded(v2, s.phase)
                                  + (IF s.phase = "wait" THEN 0 ELSE Size(m))
  BY <1>3, WordsReceived
<1>5. /\ WordsHeeded(v2, s.phase) \in Nat /\ Size(m) \in Nat /\ Waiting(f) \in Nat
      /\ RxDepth \in Nat
  BY <1>1, WordsType, SizeIs, FlowIs, CountersAre DEF Sound, EndOK
<1>6. None(v2, "request") <=> None(v, "request")
  BY <1>3, KindsReceived
<1> HIDE DEF v2, f2
<1>7. Sound(f2, s, w, g, r, v2)
  BY <1>1, <1>2 DEF Sound, EndOK
<1>8. ASSUME Joined(f, s, w, g, r, v)  PROVE Joined(f2, s, w, g, r, v2)
  <2>1. /\ Shook(s.phase, w, r.responses, v) /\ Shook(r.phase, v, s.responses, w)
        /\ Bounded(w, g, r) /\ Bounded(v, f, s)
        /\ InSync(s.phase, w) /\ InSync(r.phase, v) => Balanced(f, s, w, g, r, v)
        /\ InSync(s.phase, w) /\ InSync(r.phase, v) => Balanced(g, r, v, f, s, w)
    BY <1>8 DEF Joined, Linked
  <2>2. Shook(s.phase, w, r.responses, v2) /\ Shook(r.phase, v2, s.responses, w)
    BY <1>3, <2>1, ShookHeard, ShookReceived DEF v2
  <2>3. InSync(r.phase, v2) <=> InSync(r.phase, v)
    BY <1>6 DEF InSync
  <2>4. s.responses = << >>
    <3>1. ~OnlyResponses(v)
      BY <1>3, KindsReceived
    <3> QED  BY <1>3, <2>1, <3>1, ShookTells
  <2> DEFINE h == Waiting(f)
             h2 == Waiting(f2)
             c == WordsHeeded(v, s.phase)
             c2 == WordsHeeded(v2, s.phase)
             n == Size(m)
             a == Ahead(Total(f, s), g.tx_counter)
  <2>5. s.phase \in {"normal", "wait"} => h2 + c2 = h + c /\ h2 + c2 <= RxDepth
    <3> SUFFICES ASSUME s.phase \in {"normal", "wait"}
                 PROVE  h2 + c2 = h + c /\ h2 + c2 <= RxDepth
      OBVIOUS
    <3>1. h + c <= RxDepth
      BY <2>1 DEF Bounded
    <3>2. CASE s.phase = "wait"
      <4>1. h2 = h /\ c = c2 + 0 /\ h \in Nat /\ c2 \in Nat
        BY <1>2, <1>3, <1>4, <1>5, <3>2
      <4> HIDE DEF h, h2, c, c2
      <4> QED  BY <3>1, <4>1
    <3>3. CASE s.phase = "normal"
      <4>1. ~StreamDisabled(s)
        BY <1>3, <2>4, <3>3
      <4>2. c = c2 + n /\ h \in Nat /\ c2 \in Nat /\ n \in Nat /\ RxDepth \in Nat
        BY <1>4, <1>5, <3>3
      <4>3. h + n <= RxDepth
        <5> HIDE DEF h, c, c2, n
        <5> QED  BY <3>1, <4>2
      <4>4. h2 = h + n
        BY <1>2, <4>1, <4>3
      <4> HIDE DEF h, h2, c, c2, n
      <4> QED  BY <3>1, <4>2, <4>4
    <3> QED  BY <3>2, <3>3
  <2>6. Bounded(v2, f2, s)
    BY <2>5 DEF Bounded
  <2>7. ASSUME InSync(s.phase, w), InSync(r.phase, v)  PROVE Balanced(g, r, v2, f2, s, w)
    <3>1. a + h + c = RxDepth /\ Rising(w, r.phase, g.latest_fc, Total(f, s), g.tx_counter)
      BY <2>1, <2>7 DEF Balanced
    <3>2. h2 + c2 = h + c
      BY <2>5, <2>7 DEF InSync
    <3>3. a + h2 + c2 = RxDepth
      <4>1. a \in Nat
        BY FlowIs, AheadType DEF Sound, EndOK
      <4>2. h \in Nat /\ h2 \in Nat /\ c2 \in Nat /\ c \in Nat
        BY <1>2, <1>3, <1>5, WordsType, FlowIs DEF Sound, EndOK
      <4> HIDE DEF a, h, h2, c, c2
      <4> QED  BY <3>1, <3>2, <4>1, <4>2
    <3> QED  BY <1>2, <3>1, <3>3 DEF Balanced
  <2>8. ASSUME InSync(s.phase, w), InSync(r.phase, v)  PROVE Balanced(f2, s, w, g, r, v2)
    <3>1. Balanced(f, s, w, g, r, v)
      BY <2>1, <2>8
    <3>2. /\ f.latest_fc \in Counters /\ Total(g, r) \in Counters /\ f.tx_counter \in Counters
      BY FlowIs DEF Sound, EndOK
    <3>3. Rising(v2, s.phase, f.latest_fc, Total(g, r), f.tx_counter)
      BY <1>3, <3>1, <3>2, RisingReceived DEF Balanced, v2
    <3> QED  BY <1>2, <3>1, <3>3 DEF Balanced
  <2> QED  BY <2>1, <2>2, <2>3, <2>6, <2>7, <2>8 DEF Joined, Linked
<1> QED  BY <1>7, <1>8 DEF f2, v2

\* uart_credit.py apply_credit_update: an update of the peer arrives.
LEMMA PairUpdate ==
  ASSUME NEW f, NEW s, NEW w, NEW g, NEW r, NEW v, Sound(f, s, w, g, r, v),
         v # << >>, Head(v).kind = "credit"
  PROVE  LET f2 == ApplyCreditUpdate(f, Head(v).value)
         IN  /\ Sound(f2, s, w, g, r, Tail(v))
             /\ Joined(f, s, w, g, r, v) => Joined(f2, s, w, g, r, Tail(v))
<1> DEFINE m == Head(v)
           v2 == Tail(v)
           f2 == ApplyCreditUpdate(f, m.value)
<1>1. v2 \in Seq(Messages) /\ m \in Messages
  BY Received DEF Sound, EndOK
<1>2. /\ f2 \in Flows /\ Coupled(f2, s)
      /\ f2.tx_counter = f.tx_counter
      /\ f2.latest_fc = IF StreamDisabled(s) THEN f.latest_fc ELSE m.value
      /\ Total(f2, s) = Total(f, s) /\ Waiting(f2) = Waiting(f)
  BY <1>1, UpdateIs DEF Sound, EndOK
<1>3. r.responses \in Seq(BOOLEAN) /\ s.responses \in Seq(BOOLEAN)
      /\ w \in Seq(Messages) /\ v \in Seq(Messages)
      /\ (StreamDisabled(s) <=> s.phase # "normal" \/ s.responses # << >>)
  BY SequencerIs DEF Sound, EndOK
<1>4. WordsHeeded(v, s.phase) = WordsHeeded(v2, s.phase)
  <2> DEFINE c2 == WordsHeeded(v2, s.phase)
  <2>1. Size(m) = 0
    BY DEF Size
  <2>2. WordsHeeded(v, s.phase) = c2 + 0 /\ c2 \in Nat
    BY <1>1, <1>3, <2>1, WordsReceived, WordsType
  <2> HIDE DEF c2
  <2>3. WordsHeeded(v, s.phase) = c2
    BY <2>2
  <2> QED  BY <2>3 DEF c2
<1>5. None(v2, "request") <=> None(v, "request")
  BY <1>3, KindsReceived
<1> HIDE DEF v2, f2
<1>6. Sound(f2, s, w, g, r, v2)
  BY <1>1, <1>2 DEF Sound, EndOK
<1>7. ASSUME Joined(f, s, w, g, r, v)  PROVE Joined(f2, s, w, g, r, v2)
  <2>1. /\ Shook(s.phase, w, r.responses, v) /\ Shook(r.phase, v, s.responses, w)
        /\ Bounded(w, g, r) /\ Bounded(v, f, s)
        /\ InSync(s.phase, w) /\ InSync(r.phase, v) => Balanced(f, s, w, g, r, v)
        /\ InSync(s.phase, w) /\ InSync(r.phase, v) => Balanced(g, r, v, f, s, w)
    BY <1>7 DEF Joined, Linked
  <2>2. Shook(s.phase, w, r.responses, v2) /\ Shook(r.phase, v2, s.responses, w)
    BY <1>3, <2>1, ShookHeard, ShookReceived DEF v2
  <2>3. InSync(r.phase, v2) <=> InSync(r.phase, v)
    BY <1>5 DEF InSync
  <2>4. Bounded(v2, f2, s)
    BY <1>2, <1>4, <2>1 DEF Bounded
  <2>5. Balanced(g, r, v, f, s, w) => Balanced(g, r, v2, f2, s, w)
    BY <1>2, <1>4 DEF Balanced
  <2>6. ASSUME Balanced(f, s, w, g, r, v)  PROVE Balanced(f2, s, w, g, r, v2)
    <3>1. /\ f.latest_fc \in Counters /\ Total(g, r) \in Counters /\ f.tx_counter \in Counters
      BY FlowIs DEF Sound, EndOK
    <3>2. Rising(v, s.phase, f.latest_fc, Total(g, r), f.tx_counter)
      BY <2>6 DEF Balanced
    <3>3. /\ Rising(v2, s.phase, f.latest_fc, Total(g, r), f.tx_counter)
          /\ s.phase # "wait" => Rising(v2, s.phase, m.value, Total(g, r), f.tx_counter)
      BY <1>3, <3>1, <3>2, RisingReceived DEF v2
    <3>4. Rising(v2, s.phase, f2.latest_fc, Total(g, r), f.tx_counter)
      <4>1. CASE StreamDisabled(s)
        BY <1>2, <3>3, <4>1
      <4>2. CASE ~StreamDisabled(s)
        <5>1. s.phase # "wait" /\ f2.latest_fc = m.value
          BY <1>2, <1>3, <4>2
        <5> QED  BY <3>3, <5>1
      <4> QED  BY <4>1, <4>2
    <3> QED  BY <1>2, <2>6, <3>4 DEF Balanced
  <2> QED  BY <2>1, <2>2, <2>3, <2>4, <2>5, <2>6 DEF Joined, Linked
<1> QED  BY <1>6, <1>7 DEF f2, v2

\* uart_reset.py receive_request: the peer's request arrives.  Both streams are flushed now,
\* and nothing of the time before is left to be heeded: the ends are in step again.
LEMMA PairRequested ==
  ASSUME NEW f, NEW s, NEW w, NEW g, NEW r, NEW v, Sound(f, s, w, g, r, v),
         v # << >>, Head(v).kind = "request"
  PROVE  LET s2 == ReceiveRequest(s, 0, Head(v).all)
             f2 == Follow(f, s2)
         IN  /\ Sound(f2, s2, w, g, r, Tail(v)) /\ s2.retries = s.retries
             /\ Joined(f, s, w, g, r, v) => Joined(f2, s2, w, g, r, Tail(v))
<1> DEFINE v2 == Tail(v)
           all == Head(v).all
           s2 == ReceiveRequest(s, 0, all)
           f2 == Follow(f, s2)
<1>1. v2 \in Seq(Messages) /\ all \in BOOLEAN
  <2>1. v2 \in Seq(Messages) /\ Head(v) \in Messages
    BY Received DEF Sound, EndOK
  <2> QED  BY <2>1 DEF Messages
<1>2. /\ s2 \in Sequencers /\ s2.phase = s.phase /\ s2.retries = s.retries
      /\ s2.responses = Append(s.responses, all) /\ s2.responses # << >>
  BY <1>1, RequestedIs DEF Sound, EndOK
<1> HIDE DEF s2
<1>3. StreamDisabled(s2)
  BY <1>2, SequencerIs
<1>4. f2 \in Flows /\ Coupled(f2, s2) /\ Flushed(f2)
  BY <1>2, <1>3, FollowIs DEF Sound, EndOK
<1> HIDE DEF f2
<1>5. /\ f2.tx_counter = 0 /\ f2.latest_fc = 0 /\ Waiting(f2) = 0 /\ Total(f2, s2) = RxDepth
  BY <1>2, <1>3, <1>4, FlowIs DEF Flushed, Total
<1>6. r.responses \in Seq(BOOLEAN) /\ s.responses \in Seq(BOOLEAN)
      /\ w \in Seq(Messages) /\ v \in Seq(Messages)
  BY SequencerIs DEF Sound, EndOK
<1> HIDE DEF v2, all
<1>7. Sound(f2, s2, w, g, r, v2) /\ s2.retries = s.retries
  BY <1>1, <1>2, <1>4 DEF Sound, EndOK
<1>8. ASSUME Joined(f, s, w, g, r, v)  PROVE Joined(f2, s2, w, g, r, v2)
  <2>1. /\ Shook(s.phase, w, r.responses, v) /\ Shook(r.phase, v, s.responses, w)
        /\ Bounded(w, g, r)
    BY <1>8 DEF Joined, Linked
  <2>2. Shook(s2.phase, w, r.responses, v2)
    BY <1>2, <1>6, <2>1, ShookHeard DEF v2
  <2>3. OnlyResponses(v2) /\ Shook(r.phase, v2, s2.responses, w)
    BY <1>1, <1>2, <1>6, <2>1, ShookOwes DEF v2
  <2>4. r.phase = "wait" /\ None(w, "response")
    <3>1. ~None(v, "request")
      BY <1>6, KindsReceived
    <3> QED  BY <1>6, <2>1, <3>1, ShookTells
  <2>5. g.tx_counter = 0 /\ g.latest_fc = 0 /\ Waiting(g) = 0 /\ Total(g, r) = RxDepth
    <3>1. StreamDisabled(r)
      BY <2>4, SequencerIs DEF Sound, EndOK
    <3>2. Flushed(g)
      BY <3>1 DEF Sound, EndOK, Coupled
    <3> QED  BY <3>1, <3>2, FlowIs DEF Sound, EndOK, Flushed, Total
  <2>6. WordsHeeded(w, r.phase) = 0 /\ WordsHeeded(v2, s2.phase) = 0
    BY <1>1, <1>6, <2>3, <2>4, WordsType
  <2>7. Ahead(RxDepth, 0) = RxDepth /\ RxDepth \in Nat /\ RxDepth \in Counters
    BY CountersAre, AheadType
  <2>8. Bounded(v2, f2, s2)
    BY <1>5, <2>6, <2>7 DEF Bounded
  <2>9. Balanced(f2, s2, w, g, r, v2)
    <3>1. Rising(v2, s2.phase, 0, RxDepth, 0)
      BY <1>1, <2>3, <2>7, RisingEmpty
    <3> QED  BY <1>5, <2>5, <2>6, <2>7, <3>1 DEF Balanced
  <2>10. Balanced(g, r, v2, f2, s2, w)
    <3>1. Rising(w, r.phase, 0, RxDepth, 0)
      BY <1>6, <2>4, <2>7, RisingEmpty
    <3> QED  BY <1>5, <2>5, <2>6, <2>7, <3>1 DEF Balanced
  <2> QED  BY <2>1, <2>2, <2>3, <2>8, <2>9, <2>10 DEF Joined, Linked
<1> QED  BY <1>7, <1>8 DEF f2, s2, v2, all

\* uart_reset.py receive_response: the peer's response arrives, and the reset is over.
LEMMA PairResponded ==
  ASSUME NEW f, NEW s, NEW w, NEW g, NEW r, NEW v, Sound(f, s, w, g, r, v),
         v # << >>, Head(v).kind = "response"
  PROVE  LET s2 == ReceiveResponse(s, SUCCESS, 0, Head(v).all)
             f2 == Follow(f, s2)
         IN  /\ Sound(f2, s2, w, g, r, Tail(v)) /\ s2.retries = s.retries
             /\ Joined(f, s, w, g, r, v) => Joined(f2, s2, w, g, r, Tail(v))
<1> DEFINE v2 == Tail(v)
           all == Head(v).all
           s2 == ReceiveResponse(s, SUCCESS, 0, all)
           f2 == Follow(f, s2)
<1>1. v2 \in Seq(Messages) /\ all \in BOOLEAN
  <2>1. v2 \in Seq(Messages) /\ Head(v) \in Messages
    BY Received DEF Sound, EndOK
  <2> QED  BY <2>1 DEF Messages
<1>2. /\ s2 \in Sequencers /\ s2.retries = s.retries /\ s2.responses = s.responses
      /\ s2.phase = IF s.phase = "wait" THEN "normal" ELSE s.phase
  BY <1>1, RespondedIs DEF Sound, EndOK
<1> HIDE DEF s2
<1>3. /\ f2 \in Flows /\ Coupled(f2, s2)
      /\ StreamDisabled(s)
           => /\ f2.tx_counter = f.tx_counter /\ f2.latest_fc = f.latest_fc
              /\ Waiting(f2) = Waiting(f) /\ Total(f2, s2) = Total(f, s)
  BY <1>2, FollowIs DEF Sound, EndOK
<1> HIDE DEF f2
<1>4. r.responses \in Seq(BOOLEAN) /\ s.responses \in Seq(BOOLEAN)
      /\ w \in Seq(Messages) /\ v \in Seq(Messages)
  BY SequencerIs DEF Sound, EndOK
<1>5. None(v2, "request") <=> None(v, "request")
  BY <1>4, KindsReceived
<1> HIDE DEF v2, all
<1>6. Sound(f2, s2, w, g, r, v2) /\ s2.retries = s.retries
  BY <1>1, <1>2, <1>3 DEF Sound, EndOK
<1>7. ASSUME Joined(f, s, w, g, r, v)  PROVE Joined(f2, s2, w, g, r, v2)
  <2>1. /\ Shook(s.phase, w, r.responses, v) /\ Shook(r.phase, v, s.responses, w)
        /\ Bounded(w, g, r) /\ Bounded(v, f, s)
        /\ InSync(s.phase, w) /\ InSync(r.phase, v) => Balanced(f, s, w, g, r, v)
        /\ InSync(s.phase, w) /\ InSync(r.phase, v) => Balanced(g, r, v, f, s, w)
    BY <1>7 DEF Joined, Linked
  <2>2. s.phase = "wait" /\ OnlyResponses(w) /\ Shook("normal", w, r.responses, v2)
    BY <1>4, <2>1, ShookEnds DEF v2
  <2>3. Shook(r.phase, v2, s2.responses, w)
    BY <1>2, <1>4, <2>1, ShookReceived DEF v2
  <2>4. s2.phase = "normal"
    BY <1>2, <2>2
  <2>5. /\ f2.tx_counter = f.tx_counter /\ f2.latest_fc = f.latest_fc
        /\ Waiting(f2) = Waiting(f) /\ Total(f2, s2) = Total(f, s)
    <3>1. StreamDisabled(s)
      BY <2>2, SequencerIs DEF Sound, EndOK
    <3> QED  BY <1>3, <3>1
  <2>6. WordsHeeded(v, s.phase) = WordsHeeded(v2, s2.phase)
    <3> DEFINE c2 == WordsHeeded(v2, "normal")
               next == IF s.phase = "wait" /\ Head(v).kind = "response" THEN "normal" ELSE s.phase
    <3>1. next = "normal"
      BY <2>2
    <3>2. WordsHeeded(v, s.phase)
            = WordsHeeded(v2, next) + (IF s.phase = "wait" THEN 0 ELSE Size(Head(v)))
      BY <1>4, WordsReceived DEF v2
    <3> HIDE DEF next
    <3>3. WordsHeeded(v, s.phase) = c2 + 0 /\ c2 \in Nat
      BY <1>1, <2>2, <3>1, <3>2, WordsType
    <3> HIDE DEF c2
    <3>4. WordsHeeded(v, s.phase) = c2
      BY <3>3
    <3> QED  BY <2>4, <3>4 DEF c2
  <2>7. Bounded(v2, f2, s2)
    BY <2>1, <2>2, <2>5, <2>6 DEF Bounded
  <2>8. /\ InSync(s2.phase, w) => InSync(s.phase, w)
        /\ InSync(r.phase, v2) => InSync(r.phase, v)
    BY <1>5, <2>2 DEF InSync
  <2>9. Balanced(g, r, v, f, s, w) => Balanced(g, r, v2, f2, s2, w)
    BY <2>5, <2>6 DEF Balanced
  <2>10. ASSUME Balanced(f, s, w, g, r, v)  PROVE Balanced(f2, s2, w, g, r, v2)
    <3>1. /\ f.latest_fc \in Counters /\ Total(g, r) \in Counters /\ f.tx_counter \in Counters
      BY FlowIs DEF Sound, EndOK
    <3>2. Rising(v, s.phase, f.latest_fc, Total(g, r), f.tx_counter)
      BY <2>10 DEF Balanced
    <3>3. Rising(v2, s2.phase, f.latest_fc, Total(g, r), f.tx_counter)
      BY <1>4, <2>2, <2>4, <3>1, <3>2, RisingReceived DEF v2
    <3> QED  BY <2>5, <2>10, <3>3 DEF Balanced
  <2> QED  BY <2>1, <2>2, <2>3, <2>4, <2>7, <2>8, <2>9, <2>10 DEF Joined, Linked
<1> QED  BY <1>6, <1>7 DEF f2, s2, v2, all

-------------------------------------------------------------------------------
(* The inductive invariant.                                                      *)

StreamType ==
  /\ flow \in [Ends -> Flows] /\ seq \in [Ends -> Sequencers]
  /\ wire \in [Ends -> Seq(Messages)] /\ offer \in [Ends -> Word]
  /\ \A e \in Ends : Coupled(flow[e], seq[e])

JoinedAt(e) ==
  LET p == Peer(e)
  IN  Joined(flow[e], seq[e], wire[e], flow[p], seq[p], wire[p])

\* Each end is in order by itself; and as long as resets are answered in time, the two fit
\* each other.
StreamInv == StreamType /\ (InTime => \A e \in Ends : JoinedAt(e))

\* There are two ends.
LEMMA PeersAre ==
  ASSUME NEW e \in Ends
  PROVE  /\ Peer(e) \in Ends /\ Peer(e) # e /\ Peer(Peer(e)) = e
         /\ \A x \in Ends : x = e \/ x = Peer(e)
<1>1. PICK a, b \in Ends : a # b /\ Ends = {a, b}
  BY EndsAssumption
<1>2. \A x \in Ends : \E p \in Ends : p # x
  BY <1>1
<1>3. \A x \in Ends : Peer(x) \in Ends /\ Peer(x) # x
  BY <1>2 DEF Peer
<1> QED  BY <1>1, <1>3

\* An end in order together with its peer.
LEMMA SoundAt ==
  ASSUME StreamType, NEW e \in Ends
  PROVE  Sound(flow[e], seq[e], wire[e], flow[Peer(e)], seq[Peer(e)], wire[Peer(e)])
BY PeersAre DEF StreamType, Sound, EndOK

\* What an end does changes its own state, what it has sent, and what its peer has; if that
\* keeps the two in order, it keeps the invariant.
LEMMA StepKeeps ==
  ASSUME NEW e \in Ends, NEW f2, NEW s2, NEW w2, NEW v2, StreamInv,
         flow' = [flow EXCEPT ![e] = f2], seq' = [seq EXCEPT ![e] = s2],
         wire' = [wire EXCEPT ![e] = w2, ![Peer(e)] = v2],
         offer' \in [Ends -> Word],
         Sound(f2, s2, w2, flow[Peer(e)], seq[Peer(e)], v2),
         s2.retries = 0 => seq[e].retries = 0,
         s2.retries = 0
           /\ Joined(flow[e], seq[e], wire[e], flow[Peer(e)], seq[Peer(e)], wire[Peer(e)])
           => Joined(f2, s2, w2, flow[Peer(e)], seq[Peer(e)], v2)
  PROVE  StreamInv'
<1> DEFINE p == Peer(e)
<1>1. p \in Ends /\ p # e /\ Peer(p) = e /\ \A x \in Ends : x = e \/ x = p
  BY PeersAre
<1>2. /\ flow \in [Ends -> Flows] /\ seq \in [Ends -> Sequencers]
      /\ wire \in [Ends -> Seq(Messages)]
  BY DEF StreamInv, StreamType
<1> HIDE DEF p
<1>3. /\ flow'[e] = f2 /\ seq'[e] = s2 /\ wire'[e] = w2
      /\ flow'[p] = flow[p] /\ seq'[p] = seq[p] /\ wire'[p] = v2
  BY <1>1, <1>2 DEF p
<1>4. /\ f2 \in Flows /\ s2 \in Sequencers /\ w2 \in Seq(Messages) /\ v2 \in Seq(Messages)
      /\ Coupled(f2, s2) /\ Coupled(flow[p], seq[p])
  BY DEF Sound, EndOK, p
<1>5. StreamType'
  <2>1. flow' \in [Ends -> Flows] /\ seq' \in [Ends -> Sequencers]
        /\ wire' \in [Ends -> Seq(Messages)]
    BY <1>1, <1>2, <1>4
  <2>2. \A x \in Ends : Coupled(flow'[x], seq'[x])
    BY <1>1, <1>3, <1>4
  <2> QED  BY <2>1, <2>2 DEF StreamType
<1>6. ASSUME InTime'  PROVE \A x \in Ends : JoinedAt(x)'
  <2>1. s2.retries = 0 /\ seq[p].retries = 0
    BY <1>1, <1>3, <1>6 DEF InTime
  <2>2. InTime
    <3>1. seq[e].retries = 0
      BY <2>1
    <3> QED  BY <1>1, <2>1, <3>1 DEF InTime
  <2>3. JoinedAt(e)
    BY <2>2 DEF StreamInv
  <2>4. Joined(f2, s2, w2, flow[p], seq[p], v2)
    BY <2>1, <2>3 DEF JoinedAt, p
  <2>5. JoinedAt(e)'
    BY <1>3, <2>4 DEF JoinedAt, p
  <2>6. JoinedAt(p)'
    <3>1. Joined(flow[p], seq[p], v2, f2, s2, w2)
      BY <2>4 DEF Joined
    <3> QED  BY <1>1, <1>3, <3>1 DEF JoinedAt
  <2> QED  BY <1>1, <2>5, <2>6
<1> QED  BY <1>5, <1>6 DEF StreamInv

\* The ends start out running, with nothing under way and a whole buffer to announce.
LEMMA StreamStarts == Init => StreamInv
<1> SUFFICES ASSUME Init  PROVE StreamInv
  OBVIOUS
<1> DEFINE f == [tx |-> << >>, rx |-> << >>, tx_counter |-> 0, rx_counter |-> RxDepth,
                 latest_fc |-> 0, in_reset |-> FALSE, channel4_enabled |-> TRUE]
           s == [held |-> FALSE, phase |-> "normal", noops |-> 0, all_streams |-> FALSE,
                 responses |-> << >>, left |-> 0, retries |-> 0]
<1>1. ReleaseReset([FlowReset EXCEPT !.channel4_enabled = TRUE]) = f
  BY DEF ReleaseReset, FlowReset
<1>2. Running = s
  <2>1. SequencerReset = [held |-> TRUE, phase |-> "normal", noops |-> 0, all_streams |-> FALSE,
                          responses |-> << >>, left |-> 0, retries |-> 0]
    BY DEF SequencerReset
  <2>2. Running = [SequencerReset EXCEPT !.held = FALSE]
    BY DEF Running, ReleaseHold
  <2> QED  BY <2>1, <2>2
<1>3. f \in Flows /\ s \in Sequencers /\ << >> \in Seq(Messages) /\ 0 \in Word
  <2>1. /\ << >> \in Seq(Word) /\ << >> \in Seq(BOOLEAN) /\ << >> \in Seq(Messages)
        /\ Len(<< >>) = 0
    BY EmptySeq
  <2>2. /\ 0 \in Counters /\ RxDepth \in Counters /\ 0 <= TxDepth /\ 0 <= RxDepth
        /\ 0 \in 0..NoOps /\ 0 \in 0..Timeout /\ 0 \in Nat /\ FALSE \in BOOLEAN
    BY CountersAre, ResetAssumption
  <2>3. f \in Flows
    BY <2>1, <2>2 DEF Flows
  <2>4. s \in Sequencers
    BY <2>1, <2>2 DEF Sequencers, Phases
  <2> QED  BY <2>1, <2>3, <2>4 DEF Word
<1>4. /\ f.tx_counter = 0 /\ f.latest_fc = 0 /\ f.rx_counter = RxDepth /\ ~f.in_reset /\ f.rx = << >>
      /\ s.phase = "normal" /\ s.responses = << >>
  OBVIOUS
<1> HIDE DEF f, s
<1>5. ~StreamDisabled(s) /\ Coupled(f, s)
  BY <1>3, <1>4, SequencerIs DEF Coupled
<1>6. Joined(f, s, << >>, f, s, << >>)
  <2>1. OnlyResponses(<< >>) /\ None(<< >>, "request") /\ None(<< >>, "response")
    BY DEF OnlyResponses, None
  <2>2. WordsHeeded(<< >>, s.phase) = 0
    BY <1>3, <2>1, WordsType
  <2>3. Waiting(f) = 0 /\ Total(f, s) = RxDepth /\ RxDepth \in Counters /\ RxDepth \in Nat
    BY <1>4, <1>5, EmptySeq, CountersAre DEF Waiting, Total
  <2>4. Ahead(RxDepth, 0) = RxDepth
    BY <2>3, CountersAre, AheadType
  <2>5. Shook(s.phase, << >>, s.responses, << >>)
    BY <1>4, <2>1 DEF Shook, Quiet
  <2>6. Bounded(<< >>, f, s)
    BY <2>2, <2>3 DEF Bounded
  <2>7. Balanced(f, s, << >>, f, s, << >>)
    <3>1. Rising(<< >>, s.phase, 0, RxDepth, 0)
      BY <1>3, <2>1, <2>3, RisingEmpty
    <3> QED  BY <1>4, <2>2, <2>3, <2>4, <3>1 DEF Balanced
  <2> QED  BY <2>5, <2>6, <2>7 DEF Joined, Linked
<1>7. flow = [e \in Ends |-> f] /\ seq = [e \in Ends |-> s] /\ wire = [e \in Ends |-> << >>]
      /\ offer = [e \in Ends |-> 0]
  BY <1>1, <1>2 DEF Init
<1>8. StreamType
  BY <1>3, <1>5, <1>7 DEF StreamType
<1>9. \A e \in Ends : JoinedAt(e)
  <2> SUFFICES ASSUME NEW e \in Ends  PROVE JoinedAt(e)
    OBVIOUS
  <2>1. Peer(e) \in Ends
    BY PeersAre
  <2> QED  BY <1>6, <1>7, <2>1 DEF JoinedAt
<1> QED  BY <1>8, <1>9 DEF StreamInv

-------------------------------------------------------------------------------
(* Each action keeps it.                                                         *)

\* Firmware writes a word.
LEMMA WriteKeeps ==
  ASSUME StreamInv, NEW e \in Ends, FirmwareWrite(e)
  PROVE  StreamInv'
<1> DEFINE p == Peer(e)
           f2 == Write(flow[e], offer[e])
<1>1. p \in Ends /\ p # e
  BY PeersAre
<1>2. StreamType /\ offer[e] \in Word
  BY DEF StreamInv, StreamType
<1>3. Sound(flow[e], seq[e], wire[e], flow[p], seq[p], wire[p])
  BY <1>2, SoundAt
<1>4. CanWrite(flow[e])
  BY DEF FirmwareWrite
<1>5. /\ Sound(f2, seq[e], wire[e], flow[p], seq[p], wire[p])
      /\ Joined(flow[e], seq[e], wire[e], flow[p], seq[p], wire[p])
           => Joined(f2, seq[e], wire[e], flow[p], seq[p], wire[p])
  BY <1>2, <1>3, <1>4, PairWrite
<1>6. /\ flow' = [flow EXCEPT ![e] = f2] /\ seq' = [seq EXCEPT ![e] = seq[e]]
      /\ wire' = [wire EXCEPT ![e] = wire[e], ![p] = wire[p]]
  BY <1>1, <1>2 DEF FirmwareWrite, StreamType
<1>7. offer' \in [Ends -> Word]
  BY <1>2 DEF FirmwareWrite, StreamType, Word
<1> HIDE DEF f2
<1> QED  BY <1>5, <1>6, <1>7, StepKeeps DEF p

\* Firmware reads a word.
LEMMA ReadKeeps ==
  ASSUME StreamInv, NEW e \in Ends, FirmwareRead(e)
  PROVE  StreamInv'
<1> DEFINE p == Peer(e)
           f2 == Read(flow[e])
<1>1. p \in Ends /\ p # e
  BY PeersAre
<1>2. StreamType
  BY DEF StreamInv
<1>3. Sound(flow[e], seq[e], wire[e], flow[p], seq[p], wire[p])
  BY <1>2, SoundAt
<1>4. flow[e].rx # << >>
  BY DEF FirmwareRead
<1>5. /\ Sound(f2, seq[e], wire[e], flow[p], seq[p], wire[p])
      /\ Joined(flow[e], seq[e], wire[e], flow[p], seq[p], wire[p])
           => Joined(f2, seq[e], wire[e], flow[p], seq[p], wire[p])
  BY <1>3, <1>4, PairRead
<1>6. /\ flow' = [flow EXCEPT ![e] = f2] /\ seq' = [seq EXCEPT ![e] = seq[e]]
      /\ wire' = [wire EXCEPT ![e] = wire[e], ![p] = wire[p]]
      /\ offer' \in [Ends -> Word]
  BY <1>1, <1>2 DEF FirmwareRead, StreamType
<1> HIDE DEF f2
<1> QED  BY <1>5, <1>6, StepKeeps DEF p

\* Firmware asks for a local reset.
LEMMA ResetKeeps ==
  ASSUME StreamInv, NEW e \in Ends, FirmwareReset(e)
  PROVE  StreamInv'
<1> DEFINE p == Peer(e)
           s2 == Request(seq[e], FALSE)
           f2 == Follow(flow[e], s2)
<1>1. p \in Ends /\ p # e
  BY PeersAre
<1>2. StreamType
  BY DEF StreamInv
<1>3. Sound(flow[e], seq[e], wire[e], flow[p], seq[p], wire[p])
  BY <1>2, SoundAt
<1>4. seq[e].phase = "normal"
  BY DEF FirmwareReset, CanRequest
<1>5. s2.retries = seq[e].retries
  BY <1>3, RequestIs DEF Sound, EndOK
<1>6. /\ Sound(f2, s2, wire[e], flow[p], seq[p], wire[p])
      /\ Joined(flow[e], seq[e], wire[e], flow[p], seq[p], wire[p])
           => Joined(f2, s2, wire[e], flow[p], seq[p], wire[p])
  BY <1>3, <1>4, PairReset
<1>7. seq' = [seq EXCEPT ![e] = s2]
  BY DEF FirmwareReset
<1>8. seq'[e] = s2
  BY <1>2, <1>7 DEF StreamType
<1>9. flow' = [flow EXCEPT ![e] = f2]
  BY <1>8 DEF FirmwareReset
<1>10. /\ wire' = [wire EXCEPT ![e] = wire[e], ![p] = wire[p]]
       /\ offer' \in [Ends -> Word]
  BY <1>1, <1>2 DEF FirmwareReset, StreamType
<1> HIDE DEF f2, s2
<1> QED  BY <1>5, <1>6, <1>7, <1>9, <1>10, StepKeeps DEF p

\* A message of words is sent.
LEMMA TransportKeeps ==
  ASSUME StreamInv, NEW e \in Ends, SendTransport(e)
  PROVE  StreamInv'
<1> DEFINE p == Peer(e)
           f2 == Transmit(flow[e])
           w2 == Append(wire[e], Transport(TransportWords(flow[e])))
<1>1. p \in Ends /\ p # e
  BY PeersAre
<1>2. StreamType
  BY DEF StreamInv
<1>3. Sound(flow[e], seq[e], wire[e], flow[p], seq[p], wire[p])
  BY <1>2, SoundAt
<1>4. NextTransportLength(flow[e]) > 0
  BY DEF SendTransport
<1>5. /\ Sound(f2, seq[e], w2, flow[p], seq[p], wire[p])
      /\ Joined(flow[e], seq[e], wire[e], flow[p], seq[p], wire[p])
           => Joined(f2, seq[e], w2, flow[p], seq[p], wire[p])
  BY <1>3, <1>4, PairTransport
<1>6. /\ flow' = [flow EXCEPT ![e] = f2] /\ seq' = [seq EXCEPT ![e] = seq[e]]
      /\ offer' \in [Ends -> Word]
  BY <1>2 DEF SendTransport, StreamType
<1>7. wire' = [wire EXCEPT ![e] = w2]
  BY DEF SendTransport, Put
<1> HIDE DEF f2, w2
<1>8. wire' = [wire EXCEPT ![e] = w2, ![p] = wire[p]]
  BY <1>1, <1>2, <1>7 DEF StreamType
<1> QED  BY <1>5, <1>6, <1>8, StepKeeps DEF p

\* An update is sent.
LEMMA UpdateSentKeeps ==
  ASSUME StreamInv, NEW e \in Ends, SendCredit(e)
  PROVE  StreamInv'
<1> DEFINE p == Peer(e)
           w2 == Append(wire[e], Credit(CreditSnapshot(flow[e])))
<1>1. p \in Ends /\ p # e
  BY PeersAre
<1>2. StreamType
  BY DEF StreamInv
<1>3. Sound(flow[e], seq[e], wire[e], flow[p], seq[p], wire[p])
  BY <1>2, SoundAt
<1>4. CreditSnapshot(flow[e]) # Nothing
  BY DEF SendCredit
<1>5. /\ Sound(flow[e], seq[e], w2, flow[p], seq[p], wire[p])
      /\ Joined(flow[e], seq[e], wire[e], flow[p], seq[p], wire[p])
           => Joined(flow[e], seq[e], w2, flow[p], seq[p], wire[p])
  BY <1>3, <1>4, PairUpdateSent
<1>6. /\ flow' = [flow EXCEPT ![e] = flow[e]] /\ seq' = [seq EXCEPT ![e] = seq[e]]
      /\ offer' \in [Ends -> Word]
  BY <1>2 DEF SendCredit, StreamType
<1>7. wire' = [wire EXCEPT ![e] = w2]
  BY DEF SendCredit, Put
<1> HIDE DEF w2
<1>8. wire' = [wire EXCEPT ![e] = w2, ![p] = wire[p]]
  BY <1>1, <1>2, <1>7 DEF StreamType
<1> QED  BY <1>5, <1>6, <1>8, StepKeeps DEF p

\* The sequencer sends a word of the run-out, its request or a response.
LEMMA MaintenanceKeeps ==
  ASSUME StreamInv, NEW e \in Ends, SendMaintenance(e)
  PROVE  StreamInv'
<1> DEFINE p == Peer(e)
           s2 == Service(seq[e])
           f2 == Follow(flow[e], s2)
           s == seq[e]
<1>1. p \in Ends /\ p # e
  BY PeersAre
<1>2. StreamType
  BY DEF StreamInv
<1>3. Sound(flow[e], seq[e], wire[e], flow[p], seq[p], wire[p])
  BY <1>2, SoundAt
<1>4. Offer(s) # "none" /\ s \in Sequencers
  BY <1>3 DEF SendMaintenance, Sound, EndOK
<1>5. s2.retries = s.retries /\ Offer(s) \in {"noop", "request", "response"}
  BY <1>4, ServiceIs
<1>6. seq' = [seq EXCEPT ![e] = s2] /\ offer' \in [Ends -> Word]
  BY <1>2 DEF SendMaintenance, StreamType
<1>7. seq'[e] = s2
  BY <1>2, <1>6 DEF StreamType
<1>8. flow' = [flow EXCEPT ![e] = f2]
  BY <1>7 DEF SendMaintenance
<1>9. CASE Offer(s) = "noop"
  <2>1. wire' = wire
    BY <1>9 DEF SendMaintenance
  <2>2. wire' = [wire EXCEPT ![e] = wire[e], ![p] = wire[p]]
    BY <1>1, <1>2, <2>1 DEF StreamType
  <2>3. /\ Sound(f2, s2, wire[e], flow[p], seq[p], wire[p])
        /\ Joined(flow[e], seq[e], wire[e], flow[p], seq[p], wire[p])
             => Joined(f2, s2, wire[e], flow[p], seq[p], wire[p])
    BY <1>3, <1>9, PairNoop
  <2> HIDE DEF f2, s2
  <2> QED  BY <1>5, <1>6, <1>8, <2>2, <2>3, StepKeeps DEF p
<1>10. CASE Offer(s) = "request"
  <2> DEFINE m == Maintenance("request", s.all_streams)
             w2 == Append(wire[e], m)
  <2>1. s.all_streams \in BOOLEAN
    BY <1>4, SequencerIs
  <2>2. m \in Messages /\ m.kind = "request"
    BY <2>1 DEF Maintenance, Messages
  <2>3. wire' = [wire EXCEPT ![e] = w2]
    BY <1>10 DEF SendMaintenance, Put
  <2> HIDE DEF m
  <2>4. /\ Sound(f2, s2, w2, flow[p], seq[p], wire[p])
        /\ Joined(flow[e], seq[e], wire[e], flow[p], seq[p], wire[p])
             => Joined(f2, s2, w2, flow[p], seq[p], wire[p])
    BY <1>3, <1>10, <2>2, PairRequest
  <2> HIDE DEF f2, s2, w2
  <2>5. wire' = [wire EXCEPT ![e] = w2, ![p] = wire[p]]
    BY <1>1, <1>2, <2>3 DEF StreamType
  <2> QED  BY <1>5, <1>6, <1>8, <2>4, <2>5, StepKeeps DEF p
<1>11. CASE Offer(s) = "response"
  <2> DEFINE m == Maintenance("response", Head(s.responses))
             w2 == Append(wire[e], m)
  <2>1. Head(s.responses) \in BOOLEAN
    <3>1. s.responses # << >> /\ s.responses \in Seq(BOOLEAN)
      BY <1>4, <1>11, ServiceIs, SequencerIs
    <3> QED  BY <3>1, HeadTailProperties
  <2>2. m \in Messages /\ m.kind = "response"
    BY <2>1 DEF Maintenance, Messages
  <2>3. wire' = [wire EXCEPT ![e] = w2]
    BY <1>11 DEF SendMaintenance, Put
  <2> HIDE DEF m
  <2>4. /\ Sound(f2, s2, w2, flow[p], seq[p], wire[p])
        /\ Joined(flow[e], seq[e], wire[e], flow[p], seq[p], wire[p])
             => Joined(f2, s2, w2, flow[p], seq[p], wire[p])
    BY <1>3, <1>11, <2>2, PairResponse
  <2> HIDE DEF f2, s2, w2
  <2>5. wire' = [wire EXCEPT ![e] = w2, ![p] = wire[p]]
    BY <1>1, <1>2, <2>3 DEF StreamType
  <2> QED  BY <1>5, <1>6, <1>8, <2>4, <2>5, StepKeeps DEF p
<1> QED  BY <1>5, <1>9, <1>10, <1>11

\* A message of the peer arrives.
LEMMA ReceiveKeeps ==
  ASSUME StreamInv, NEW e \in Ends, Receive(e)
  PROVE  StreamInv'
<1> DEFINE p == Peer(e)
           s == seq[e]
           v2 == Tail(wire[p])
           m == Head(wire[p])
<1>1. p \in Ends /\ p # e
  BY PeersAre
<1>2. StreamType
  BY DEF StreamInv
<1>3. Sound(flow[e], seq[e], wire[e], flow[p], seq[p], wire[p])
  BY <1>2, SoundAt
<1>4. wire[p] # << >> /\ wire' = [wire EXCEPT ![p] = v2]
  BY DEF Receive
<1>5. offer' \in [Ends -> Word]
  BY <1>2 DEF Receive, StreamType
<1>6. wire' = [wire EXCEPT ![e] = wire[e], ![p] = v2]
  <2> HIDE DEF v2, p
  <2> QED  BY <1>1, <1>2, <1>4 DEF StreamType
<1>7. CASE m.kind = "transport"
  <2> DEFINE f2 == ReceiveTransport(flow[e], m.words)
  <2>1. flow' = [flow EXCEPT ![e] = f2] /\ seq' = seq
    BY <1>7 DEF Receive
  <2>2. seq' = [seq EXCEPT ![e] = s]
    BY <1>2, <2>1 DEF StreamType
  <2>3. /\ Sound(f2, s, wire[e], flow[p], seq[p], v2)
        /\ Joined(flow[e], seq[e], wire[e], flow[p], seq[p], wire[p])
             => Joined(f2, s, wire[e], flow[p], seq[p], v2)
    BY <1>3, <1>4, <1>7, PairArrival
  <2> HIDE DEF f2, v2, m
  <2> QED  BY <1>5, <1>6, <2>1, <2>2, <2>3, StepKeeps DEF p
<1>8. CASE m.kind = "credit"
  <2> DEFINE f2 == ApplyCreditUpdate(flow[e], m.value)
  <2>1. flow' = [flow EXCEPT ![e] = f2] /\ seq' = seq
    BY <1>8 DEF Receive
  <2>2. seq' = [seq EXCEPT ![e] = s]
    BY <1>2, <2>1 DEF StreamType
  <2>3. /\ Sound(f2, s, wire[e], flow[p], seq[p], v2)
        /\ Joined(flow[e], seq[e], wire[e], flow[p], seq[p], wire[p])
             => Joined(f2, s, wire[e], flow[p], seq[p], v2)
    BY <1>3, <1>4, <1>8, PairUpdate
  <2> HIDE DEF f2, v2, m
  <2> QED  BY <1>5, <1>6, <2>1, <2>2, <2>3, StepKeeps DEF p
<1>9. CASE m.kind = "request"
  <2> DEFINE s2 == ReceiveRequest(s, 0, m.all)
             f2 == Follow(flow[e], s2)
  <2>1. seq' = [seq EXCEPT ![e] = s2]
    BY <1>9 DEF Receive
  <2>2. seq'[e] = s2
    BY <1>2, <2>1 DEF StreamType
  <2>3. flow' = [flow EXCEPT ![e] = f2]
    BY <1>9, <2>2 DEF Receive
  <2>4. /\ Sound(f2, s2, wire[e], flow[p], seq[p], v2) /\ s2.retries = s.retries
        /\ Joined(flow[e], seq[e], wire[e], flow[p], seq[p], wire[p])
             => Joined(f2, s2, wire[e], flow[p], seq[p], v2)
    BY <1>3, <1>4, <1>9, PairRequested
  <2> HIDE DEF f2, s2, v2, m
  <2> QED  BY <1>5, <1>6, <2>1, <2>3, <2>4, StepKeeps DEF p
<1>10. CASE m.kind = "response"
  <2> DEFINE s2 == ReceiveResponse(s, SUCCESS, 0, m.all)
             f2 == Follow(flow[e], s2)
  <2>1. seq' = [seq EXCEPT ![e] = s2]
    BY <1>10 DEF Receive
  <2>2. seq'[e] = s2
    BY <1>2, <2>1 DEF StreamType
  <2>3. flow' = [flow EXCEPT ![e] = f2]
    BY <1>10, <2>2 DEF Receive
  <2>4. /\ Sound(f2, s2, wire[e], flow[p], seq[p], v2) /\ s2.retries = s.retries
        /\ Joined(flow[e], seq[e], wire[e], flow[p], seq[p], wire[p])
             => Joined(f2, s2, wire[e], flow[p], seq[p], v2)
    BY <1>3, <1>4, <1>10, PairResponded
  <2> HIDE DEF f2, s2, v2, m
  <2> QED  BY <1>5, <1>6, <2>1, <2>3, <2>4, StepKeeps DEF p
<1>11. m.kind \in {"transport", "credit", "request", "response"}
  BY DEF Receive
<1> QED  BY <1>7, <1>8, <1>9, <1>10, <1>11

\* Time passes; with a deadline that is missed the ends are not in time any more.
LEMMA ElapseKeeps ==
  ASSUME StreamInv, NEW e \in Ends, Elapse(e)
  PROVE  StreamInv'
<1> DEFINE p == Peer(e)
           s == seq[e]
           s2 == Advance(s, 1)
           f2 == Follow(flow[e], s2)
<1>1. p \in Ends /\ p # e
  BY PeersAre
<1>2. StreamType
  BY DEF StreamInv
<1>3. Sound(flow[e], seq[e], wire[e], flow[p], seq[p], wire[p])
  BY <1>2, SoundAt
<1>4. s.phase = "wait" /\ s.retries \in Nat
  BY <1>3, SequencerIs DEF Elapse, Sound, EndOK
<1>5. /\ Sound(f2, s2, wire[e], flow[p], seq[p], wire[p])
      /\ (s2.phase = "wait" /\ s2.retries = s.retries) \/ s2.retries = s.retries + 1
      /\ s2.phase = "wait" /\ Joined(flow[e], seq[e], wire[e], flow[p], seq[p], wire[p])
           => Joined(f2, s2, wire[e], flow[p], seq[p], wire[p])
  BY <1>3, <1>4, PairWait
<1>6. seq' = [seq EXCEPT ![e] = s2]
  BY DEF Elapse
<1>7. seq'[e] = s2
  BY <1>2, <1>6 DEF StreamType
<1>8. flow' = [flow EXCEPT ![e] = f2]
  BY <1>7 DEF Elapse
<1>9. /\ wire' = [wire EXCEPT ![e] = wire[e], ![p] = wire[p]]
      /\ offer' \in [Ends -> Word]
  BY <1>1, <1>2 DEF Elapse, StreamType
<1> HIDE DEF f2, s2
<1>10. s2.retries = 0 => s2.phase = "wait" /\ s.retries = 0
  <2> DEFINE n == s.retries
             k == s2.retries
  <2>1. n \in Nat /\ ((s2.phase = "wait" /\ k = n) \/ k = n + 1)
    BY <1>4, <1>5
  <2> HIDE DEF n, k
  <2>2. k = 0 => s2.phase = "wait" /\ n = 0
    BY <2>1
  <2> QED  BY <2>2 DEF n, k
<1> QED  BY <1>5, <1>6, <1>8, <1>9, <1>10, StepKeeps DEF p

\* Every step keeps the invariant.
LEMMA StreamSteps == StreamInv /\ [Next]_vars => StreamInv'
<1> SUFFICES ASSUME StreamInv, [Next]_vars  PROVE StreamInv'
  OBVIOUS
<1>1. CASE Next
  <2>1. PICK e \in Ends : \/ FirmwareWrite(e) \/ FirmwareRead(e) \/ FirmwareReset(e)
                         \/ Send(e) \/ Receive(e) \/ Elapse(e)
    BY <1>1 DEF Next
  <2> QED  BY <2>1, WriteKeeps, ReadKeeps, ResetKeeps, TransportKeeps, UpdateSentKeeps,
              MaintenanceKeeps, ReceiveKeeps, ElapseKeeps DEF Send
<1>2. CASE UNCHANGED vars
  BY <1>2 DEF vars, StreamInv, StreamType, InTime, JoinedAt
<1> QED  BY <1>1, <1>2

-------------------------------------------------------------------------------
(* What follows.                                                                 *)

LEMMA StreamAlways == Spec => []StreamInv
BY StreamStarts, StreamSteps, PTL DEF Spec

\* Counters, buffers and sequencers are in range.
LEMMA StreamTypes == StreamType => TypeOK
<1> SUFFICES ASSUME StreamType, NEW e \in Ends
    PROVE  /\ Len(flow[e].tx) <= TxDepth /\ Len(flow[e].rx) <= RxDepth
           /\ {flow[e].tx_counter, flow[e].rx_counter, flow[e].latest_fc} \subseteq Counters
           /\ seq[e].phase \in Phases /\ seq[e].noops \in 0..NoOps /\ seq[e].left \in 0..Timeout
           /\ flow[e].in_reset = StreamDisabled(seq[e])
  BY DEF TypeOK
<1>1. flow[e] \in Flows /\ seq[e] \in Sequencers /\ Coupled(flow[e], seq[e])
  BY DEF StreamType
<1>2. /\ Len(flow[e].tx) <= TxDepth /\ Len(flow[e].rx) <= RxDepth
      /\ {flow[e].tx_counter, flow[e].rx_counter, flow[e].latest_fc} \subseteq Counters
      /\ flow[e].in_reset \in BOOLEAN
  BY <1>1 DEF Flows
<1>3. seq[e].phase \in Phases /\ seq[e].noops \in 0..NoOps /\ seq[e].left \in 0..Timeout
  BY <1>1 DEF Sequencers
<1>4. flow[e].in_reset = StreamDisabled(seq[e])
  <2>1. flow[e].in_reset <=> StreamDisabled(seq[e])
    BY <1>1 DEF Coupled
  <2>2. StreamDisabled(seq[e]) \in BOOLEAN
    BY <1>1, SequencerIs DEF StreamDisabled
  <2> DEFINE a == flow[e].in_reset
             b == StreamDisabled(seq[e])
  <2> HIDE DEF a, b
  <2>3. a \in BOOLEAN /\ b \in BOOLEAN /\ (a <=> b)
    BY <1>2, <2>1, <2>2 DEF a, b
  <2>4. a = b
    BY <2>3
  <2> QED  BY <2>4 DEF a, b
<1> QED  BY <1>2, <1>3, <1>4

\* The first message of words fits, whatever else is under way.
LEMMA NothingOverflows ==
  ASSUME StreamInv, InTime
  PROVE  NoOverflow
<1> SUFFICES ASSUME NEW e \in Ends, wire[Peer(e)] # << >>,
                    Head(wire[Peer(e)]).kind = "transport", Active(flow[e])
             PROVE  Fits(flow[e], Head(wire[Peer(e)]).words)
  BY DEF NoOverflow
<1> DEFINE p == Peer(e)
           v == wire[p]
           m == Head(v)
           s == seq[e]
<1>1. /\ p \in Ends /\ StreamType /\ JoinedAt(e)
  BY PeersAre DEF StreamInv
<1>2. /\ v \in Seq(Messages) /\ s \in Sequencers /\ flow[e] \in Flows /\ Coupled(flow[e], s)
  BY <1>1 DEF StreamType
<1>3. s.phase = "normal"
  BY <1>2, SequencerIs DEF Coupled, Active
<1>4. Bounded(v, flow[e], s)
  BY <1>1 DEF JoinedAt, Joined, Linked
<1>5. /\ m \in Messages /\ Tail(v) \in Seq(Messages)
  BY <1>2, Received
<1>6. WordsHeeded(v, s.phase) = WordsHeeded(Tail(v), s.phase) + Size(m)
  BY <1>2, <1>3, WordsReceived
<1>7. Size(m) = Len(m.words)
  BY DEF Size
<1> DEFINE h == Waiting(flow[e])
           c == WordsHeeded(v, s.phase)
           c2 == WordsHeeded(Tail(v), s.phase)
           n == Size(m)
<1>8. h + c <= RxDepth
  BY <1>3, <1>4 DEF Bounded
<1>9. c = c2 + n /\ h \in Nat /\ c2 \in Nat /\ n \in Nat /\ RxDepth \in Nat
  BY <1>2, <1>5, <1>6, FlowIs, WordsType, SizeIs, CountersAre
<1>10. h + n <= RxDepth
  <2> HIDE DEF h, c, c2, n
  <2> QED  BY <1>8, <1>9
<1> QED  BY <1>7, <1>10 DEF Fits, Waiting

\* When the ends have settled, every word under way will be taken.
LEMMA SettledIs ==
  ASSUME StreamInv, InTime, Settled, NEW e \in Ends
  PROVE  LET p == Peer(e)
         IN  /\ Ahead(flow[p].rx_counter, flow[e].tx_counter) = Room(p) - Underway(e)
             /\ AvailableCredits(flow[e]) <= Room(p) - Underway(e)
<1> DEFINE p == Peer(e)
           w == wire[e]
           r == seq[p]
           t == flow[e].tx_counter
<1>1. p \in Ends /\ StreamType /\ JoinedAt(e)
  BY PeersAre DEF StreamInv
<1>2. /\ w \in Seq(Messages) /\ wire[p] \in Seq(Messages)
      /\ seq[e] \in Sequencers /\ r \in Sequencers /\ flow[p] \in Flows /\ flow[e] \in Flows
  BY <1>1 DEF StreamType
<1>3. ~StreamDisabled(r) /\ r.phase = "normal" /\ seq[e].phase = "normal"
  BY <1>1, <1>2, SequencerIs DEF Settled, Resetting
<1>4. None(w, "request") /\ None(wire[p], "request")
  BY <1>1 DEF Settled, None
<1>5. Balanced(flow[e], seq[e], w, flow[p], r, wire[p])
  BY <1>1, <1>3, <1>4 DEF JoinedAt, Joined, Linked, InSync
<1>6. Total(flow[p], r) = flow[p].rx_counter
  BY <1>3 DEF Total
<1>7. Underway(e) = WordsHeeded(w, r.phase)
  <2>1. Heeded(w, r.phase) = DOMAIN w
    BY <1>3 DEF Heeded
  <2>2. {at \in (DOMAIN w) \X (1..MaxWords) :
           LET m == w[at[1]] IN m.kind = "transport" /\ at[2] <= Len(m.words)}
          = Cells(w, DOMAIN w)
    BY DEF Cells, Holds
  <2> QED  BY <2>1, <2>2 DEF Underway, WordsHeeded
<1> DEFINE a == Ahead(flow[p].rx_counter, t)
           l == Ahead(flow[e].latest_fc, t)
           h == Len(flow[p].rx)
           c == Underway(e)
<1>8. a + h + c = RxDepth /\ l <= a
  BY <1>5, <1>6, <1>7 DEF Balanced, Rising, Waiting
<1>9. a \in Nat /\ l \in Nat /\ h \in Nat /\ c \in Nat /\ RxDepth \in Nat
  <2>1. /\ flow[p].rx_counter \in Counters /\ t \in Counters /\ flow[e].latest_fc \in Counters
        /\ h \in Nat
    BY <1>2, FlowIs DEF Waiting
  <2> QED  BY <1>2, <1>7, <2>1, AheadType, WordsType, CountersAre
<1>10. a = (RxDepth - h) - c /\ l <= (RxDepth - h) - c
  <2> HIDE DEF a, l, h, c
  <2> QED  BY <1>8, <1>9
<1>11. AvailableCredits(flow[e]) = l /\ Room(p) = RxDepth - h
  BY DEF AvailableCredits, Ahead, Room
<1> HIDE DEF a, l, h, c
<1> QED  BY <1>10, <1>11 DEF a, c

\* As long as resets are answered in time, no credit is lost or invented, whatever resets
\* are begun and however their messages meet those of the time before.
THEOREM CreditKept == Spec => []CreditConservedInTime
<1>1. StreamInv => CreditConservedInTime
  BY SettledIs DEF CreditConservedInTime, CreditConserved, Ahead
<1> QED  BY <1>1, StreamAlways, PTL

\* Counters and buffers stay within their bounds; and as long as resets are answered in
\* time, receive_transport does not raise its BufferError and no writer believes in room
\* that is not there.
THEOREM RoomKept == Spec => []StaysWithinRoom
<1>1. StreamInv => StaysWithinRoom
  <2> SUFFICES ASSUME StreamInv  PROVE TypeOK /\ (InTime => NoOverflow /\ CreditWithinRoom)
    BY DEF StaysWithinRoom
  <2>1. TypeOK
    BY StreamTypes DEF StreamInv
  <2>2. InTime => NoOverflow
    BY NothingOverflows
  <2>3. InTime => CreditWithinRoom
    BY SettledIs DEF CreditWithinRoom
  <2> QED  BY <2>1, <2>2, <2>3
<1> QED  BY <1>1, StreamAlways, PTL
===============================================================================
