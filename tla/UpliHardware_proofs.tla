-------------------------- MODULE UpliHardware_proofs --------------------------
(* For every number of ports and virtual channels, every capacity, batch and     *)
(* depth of the return queue: the closed loop of a UPLI channel conserves credit,*)
(* and its circuits do what their references do.                                 *)
(*                                                                               *)
(* First what a receive channel stores, for any words, any batch and any depths: *)
(* one edge of a FIFO and one edge of the queue of owed credits, which the proofs*)
(* of the blocks (UpliBlocks_proofs) rest on too; then the closed loop.          *)
EXTENDS UpliHardware, FiniteSetTheorems, FunctionTheorems, SequenceTheorems,
        WellFoundedInduction, TLAPS

-------------------------------------------------------------------------------
(* A FIFO: what it holds loses its head if the consumer takes it, and gains what *)
(* is offered if it is ready.                                                    *)

\* A sequence is its head followed by its tail.
LEMMA HeadThenTail ==
  ASSUME NEW S, NEW s \in Seq(S), s # << >>
  PROVE  <<Head(s)>> \o Tail(s) = s
<1>1. Head(s) \in S /\ Tail(s) \in Seq(S) /\ Len(Tail(s)) = Len(s) - 1
      /\ \A i \in 1..Len(Tail(s)) : Tail(s)[i] = s[i + 1]
  BY HeadTailProperties
<1>2. <<Head(s)>> \in Seq(S) /\ Len(<<Head(s)>>) = 1 /\ <<Head(s)>>[1] = Head(s)
  BY <1>1
<1>3. /\ <<Head(s)>> \o Tail(s) \in Seq(S)
      /\ Len(<<Head(s)>> \o Tail(s)) = 1 + Len(Tail(s))
      /\ \A i \in 1..(1 + Len(Tail(s))) : (<<Head(s)>> \o Tail(s))[i] =
           IF i <= 1 THEN <<Head(s)>>[i] ELSE Tail(s)[i - 1]
  BY <1>1, <1>2, ConcatProperties
<1>4. Len(s) \in Nat /\ Len(s) # 0 /\ Head(s) = s[1]
  BY EmptySeq, LenProperties
<1>5. \A i \in 1..Len(s) : (<<Head(s)>> \o Tail(s))[i] = s[i]
  BY <1>1, <1>2, <1>3, <1>4
<1> QED  BY <1>1, <1>3, <1>4, <1>5, SeqEqual

\* What leaves a concatenation leaves its first part, if that is not empty.
LEMMA FrontOfConcat ==
  ASSUME NEW S, NEW s \in Seq(S), NEW t \in Seq(S), s # << >>
  PROVE  /\ s \o t # << >>
         /\ Head(s \o t) = Head(s)
         /\ Tail(s \o t) = Tail(s) \o t
<1>1. /\ s \o t \in Seq(S)
      /\ Len(s \o t) = Len(s) + Len(t)
      /\ \A i \in 1..(Len(s) + Len(t)) : (s \o t)[i] = IF i <= Len(s) THEN s[i] ELSE t[i - Len(s)]
  BY ConcatProperties
<1>2. Len(s) \in Nat \ {0} /\ Len(t) \in Nat
  BY EmptySeq, LenProperties
<1>3. s \o t # << >>
  BY <1>1, <1>2, EmptySeq
<1>4. Head(s \o t) = Head(s)
  BY <1>1, <1>2
<1>5. /\ Tail(s) \in Seq(S) /\ Len(Tail(s)) = Len(s) - 1
      /\ \A i \in 1..Len(Tail(s)) : Tail(s)[i] = s[i + 1]
  BY HeadTailProperties
<1>6. /\ Tail(s \o t) \in Seq(S) /\ Len(Tail(s \o t)) = Len(s \o t) - 1
      /\ \A i \in 1..Len(Tail(s \o t)) : Tail(s \o t)[i] = (s \o t)[i + 1]
  BY <1>1, <1>3, HeadTailProperties
<1>7. /\ Tail(s) \o t \in Seq(S) /\ Len(Tail(s) \o t) = Len(s) - 1 + Len(t)
      /\ \A i \in 1..(Len(s) - 1 + Len(t)) :
           (Tail(s) \o t)[i] = IF i <= Len(s) - 1 THEN Tail(s)[i] ELSE t[i - (Len(s) - 1)]
  BY <1>5, ConcatProperties
<1>8. \A i \in 1..(Len(s) - 1 + Len(t)) : Tail(s \o t)[i] = (Tail(s) \o t)[i]
  BY <1>1, <1>2, <1>5, <1>6, <1>7
<1>9. Tail(s \o t) = Tail(s) \o t
  BY <1>1, <1>2, <1>6, <1>7, <1>8, SeqEqual
<1> QED  BY <1>3, <1>4, <1>9

\* The facts about concatenation, for the sequences over one set.
LEMMA Joins ==
  ASSUME NEW W
  PROVE  /\ \A s, t \in Seq(W) : s \o t \in Seq(W) /\ Len(s \o t) = Len(s) + Len(t)
         /\ \A s, t, u \in Seq(W) : (s \o t) \o u = s \o (t \o u)
<1>1. \A s, t \in Seq(W) : s \o t \in Seq(W) /\ Len(s \o t) = Len(s) + Len(t)
  BY ConcatProperties
<1>2. \A s, t, u \in Seq(W) : (s \o t) \o u = s \o (t \o u)
  BY ConcatAssociative
<1> QED  BY <1>1, <1>2

-------------------------------------------------------------------------------
(* One edge, from any well-typed state.                                        *)

\* What may be offered at an edge, and the states of a FIFO of such words.
Offers(W) == {<< >>} \cup {<<w>> : w \in W}
Buffers(W) == [unread : Seq(W), pending : Offers(W), visible : Seq(W)]

\* What comes in, and what leaves and what is left of a part when its head goes.
Taken(f, depth, data) == IF Ready(f, depth) THEN data ELSE << >>
Remaining(s, goes) == IF goes THEN Tail(s) ELSE s
Leaving(s, goes) == IF goes THEN <<Head(s)>> ELSE << >>
One(goes) == IF goes THEN 1 ELSE 0

\* Everything the FIFO holds, in the order in which it goes.
Contents(f) == f.visible \o f.pending \o f.unread

\* What is offered is a sequence of at most one word.
LEMMA OfferIsSeq ==
  ASSUME NEW W, NEW o \in Offers(W)
  PROVE  o \in Seq(W) /\ Len(o) \in {0, 1}
<1>1. << >> \in Seq(W) /\ Len(<< >>) = 0
  BY EmptySeq
<1>2. \A x \in W : <<x>> \in Seq(W) /\ Len(<<x>>) = 1
  OBVIOUS
<1> QED  BY <1>1, <1>2 DEF Offers

\* Leaving and Remaining split a sequence without changing it.
LEMMA Split ==
  ASSUME NEW W, NEW s \in Seq(W), NEW goes \in BOOLEAN, goes => s # << >>
  PROVE  /\ Leaving(s, goes) \in Offers(W) /\ Remaining(s, goes) \in Seq(W)
         /\ Len(Leaving(s, goes)) + Len(Remaining(s, goes)) = Len(s)
         /\ Len(Leaving(s, goes)) = One(goes)
         /\ Leaving(s, goes) \o Remaining(s, goes) = s
<1>1. CASE goes
  <2>1. Head(s) \in W /\ Tail(s) \in Seq(W) /\ Len(Tail(s)) = Len(s) - 1
    BY <1>1, HeadTailProperties
  <2>2. <<Head(s)>> \o Tail(s) = s
    BY <1>1, HeadThenTail
  <2>3. <<Head(s)>> \in Offers(W) /\ Len(<<Head(s)>>) = 1 /\ Len(s) \in Nat
    BY <2>1, LenProperties DEF Offers
  <2> QED  BY <1>1, <2>1, <2>2, <2>3 DEF Leaving, Remaining, One
<1>2. CASE ~goes
  BY <1>2, ConcatEmptySeq, LenProperties DEF Leaving, Remaining, Offers, One
<1> QED  BY <1>1, <1>2

\* What is left is shorter by what leaves.
LEMMA RestIsShorter ==
  ASSUME NEW W, NEW s \in Seq(W), NEW goes \in BOOLEAN, goes => s # << >>
  PROVE  Len(Remaining(s, goes)) = Len(s) - One(goes)
<1> DEFINE rest == Remaining(s, goes)
           gone == Leaving(s, goes)
<1>1. rest \in Seq(W) /\ Len(gone) + Len(rest) = Len(s) /\ Len(gone) = One(goes)
  BY Split
<1>2. Len(s) \in Nat /\ Len(rest) \in Nat
  BY <1>1, LenProperties
<1> HIDE DEF rest, gone
<1>3. Len(rest) = Len(s) - One(goes)
  BY <1>1, <1>2
<1> QED  BY <1>3 DEF rest

\* A FIFO stays one.
LEMMA StepOfFifo ==
  \A W, depth : \A f \in Buffers(W), data \in Offers(W), consume \in BOOLEAN :
    Step(f, depth, data, consume) \in Buffers(W)
<1> TAKE W, depth
<1> TAKE f \in Buffers(W), data \in Offers(W), consume \in BOOLEAN
<1> DEFINE next == Step(f, depth, data, consume)
           pop == Pops(f, consume)
           read == Reads(f, consume)
           in == Taken(f, depth, data)
           rv == Remaining(f.visible, pop)
           ru == Remaining(f.unread, read)
<1>1. f.unread \in Seq(W) /\ f.pending \in Offers(W) /\ f.visible \in Seq(W)
  BY DEF Buffers
<1>2. pop \in BOOLEAN /\ (pop => f.visible # << >>)
  BY DEF Pops, Valid
<1>3. read \in BOOLEAN /\ (read => f.unread # << >>)
  BY DEF Reads, Room
<1>4. in \in Offers(W)
  BY DEF Taken, Offers
<1>5. /\ next.visible = rv \o f.pending
      /\ next.pending = Leaving(f.unread, read)
      /\ next.unread = ru \o in
  BY DEF Step, Remaining, Leaving, Taken
<1>6. rv \in Seq(W) /\ ru \in Seq(W) /\ Leaving(f.unread, read) \in Offers(W)
  BY <1>1, <1>2, <1>3, Split
<1>7. f.pending \in Seq(W) /\ in \in Seq(W)
  BY <1>1, <1>4, OfferIsSeq
<1>8. next = [visible |-> next.visible, pending |-> next.pending, unread |-> next.unread]
  BY DEF Step
<1> HIDE DEF next, rv, ru, in
<1>9. next.visible \in Seq(W) /\ next.unread \in Seq(W)
  BY <1>5, <1>6, <1>7, ConcatProperties
<1>10. next \in Buffers(W)
  BY <1>5, <1>6, <1>8, <1>9 DEF Buffers
<1> QED  BY <1>10 DEF next

\* The lengths of its parts after an edge.
LEMMA StepLengths ==
  \A W, depth : \A f \in Buffers(W), data \in Offers(W), consume \in BOOLEAN :
    LET next == Step(f, depth, data, consume) IN
    /\ Len(next.visible) = Len(f.visible) - One(Pops(f, consume)) + Len(f.pending)
    /\ Len(next.pending) = One(Reads(f, consume))
    /\ Len(next.unread) = Len(f.unread) - One(Reads(f, consume)) + Len(Taken(f, depth, data))
<1> TAKE W, depth
<1> TAKE f \in Buffers(W), data \in Offers(W), consume \in BOOLEAN
<1> DEFINE next == Step(f, depth, data, consume)
           pop == Pops(f, consume)
           read == Reads(f, consume)
           in == Taken(f, depth, data)
           rv == Remaining(f.visible, pop)
           ru == Remaining(f.unread, read)
           p == f.pending
<1>1. f.unread \in Seq(W) /\ p \in Seq(W) /\ f.visible \in Seq(W)
  BY OfferIsSeq DEF Buffers
<1>2. pop \in BOOLEAN /\ (pop => f.visible # << >>) /\ read \in BOOLEAN /\ (read => f.unread # << >>)
  BY DEF Pops, Valid, Reads, Room
<1>3. in \in Seq(W)
  BY OfferIsSeq DEF Taken, Offers
<1>4. /\ next.visible = rv \o p /\ next.pending = Leaving(f.unread, read) /\ next.unread = ru \o in
  BY DEF Step, Remaining, Leaving, Taken
<1>5. /\ rv \in Seq(W) /\ ru \in Seq(W) /\ Len(Leaving(f.unread, read)) = One(read)
  BY <1>1, <1>2, Split
<1>6. /\ Len(rv) = Len(f.visible) - One(pop) /\ Len(ru) = Len(f.unread) - One(read)
  BY <1>1, <1>2, RestIsShorter
<1> HIDE DEF next, rv, ru, in, p
<1>7. Len(next.visible) = Len(rv) + Len(p) /\ Len(next.unread) = Len(ru) + Len(in)
  BY <1>1, <1>3, <1>4, <1>5, ConcatProperties
<1> QED  BY <1>4, <1>5, <1>6, <1>7 DEF next, in, p

\* Its count after an edge: what is consumed leaves, what it was ready for enters.
LEMMA StepCounts ==
  \A W, depth : \A f \in Buffers(W), data \in Offers(W), consume \in BOOLEAN :
    Count(Step(f, depth, data, consume))
      = (Count(f) - (IF Pops(f, consume) THEN 1 ELSE 0)) + Len(Taken(f, depth, data))
<1> TAKE W, depth
<1> TAKE f \in Buffers(W), data \in Offers(W), consume \in BOOLEAN
<1> DEFINE next == Step(f, depth, data, consume)
           pop == One(Pops(f, consume))
           read == One(Reads(f, consume))
           in == Len(Taken(f, depth, data))
           v == Len(f.visible)
           p == Len(f.pending)
           u == Len(f.unread)
<1>1. /\ Len(next.visible) = v - pop + p /\ Len(next.pending) = read
      /\ Len(next.unread) = u - read + in
  BY StepLengths
<1>2. v \in Nat /\ u \in Nat /\ p \in Nat
  BY OfferIsSeq, LenProperties DEF Buffers
<1>3. in \in Nat
  <2>1. Taken(f, depth, data) \in Seq(W)
    BY OfferIsSeq DEF Taken, Offers
  <2> QED  BY <2>1, LenProperties
<1>4. pop \in Nat /\ read \in Nat
  BY DEF One
<1>8. pop = IF Pops(f, consume) THEN 1 ELSE 0
  BY DEF One
<1>5. Count(f) = u + p + v /\ Count(next) = Len(next.unread) + Len(next.pending) + Len(next.visible)
  BY DEF Count
<1> HIDE DEF next, pop, read, in, v, p, u
<1>6. Count(next) = (u - read + in) + read + (v - pop + p)
  BY <1>1, <1>5
<1>7. Count(next) = (Count(f) - pop) + in
  <2>1. Count(f) = u + p + v
    BY <1>5
  <2> QED  BY <1>2, <1>3, <1>4, <1>6, <2>1
<1> QED  BY <1>7, <1>8 DEF next, in

\* The words a FIFO holds are a sequence; its count is their number.
LEMMA ContentsAreWords ==
  ASSUME NEW W, NEW f \in Buffers(W)
  PROVE  Contents(f) \in Seq(W) /\ Count(f) = Len(Contents(f)) /\ Count(f) \in Nat
<1> DEFINE v == f.visible
           p == f.pending
           u == f.unread
<1>1. v \in Seq(W) /\ p \in Seq(W) /\ u \in Seq(W)
  BY OfferIsSeq DEF Buffers
<1>2. Contents(f) = (v \o p) \o u /\ Count(f) = Len(u) + Len(p) + Len(v)
  BY DEF Contents, Count
<1> HIDE DEF v, p, u
<1>3. v \o p \in Seq(W) /\ Len(v \o p) = Len(v) + Len(p)
  BY <1>1, ConcatProperties
<1>4. (v \o p) \o u \in Seq(W) /\ Len((v \o p) \o u) = Len(v \o p) + Len(u)
  BY <1>1, <1>3, ConcatProperties
<1>5. Len(v) \in Nat /\ Len(p) \in Nat /\ Len(u) \in Nat
  BY <1>1, LenProperties
<1> QED  BY <1>2, <1>3, <1>4, <1>5

\* An edge on them: what is consumed was their head, and what is accepted becomes
\* their tail.
LEMMA StepOfContents ==
  \A W, depth : \A f \in Buffers(W), data \in Offers(W), consume \in BOOLEAN :
    LET next == Step(f, depth, data, consume) IN
    /\ Contents(next) = Remaining(Contents(f), Pops(f, consume)) \o Taken(f, depth, data)
    /\ Pops(f, consume) => Contents(f) # << >> /\ Head(Contents(f)) = Head(f.visible)
<1> TAKE W, depth
<1> TAKE f \in Buffers(W), data \in Offers(W), consume \in BOOLEAN
<1> DEFINE next == Step(f, depth, data, consume)
           pop == Pops(f, consume)
           read == Reads(f, consume)
           in == Taken(f, depth, data)
           v == f.visible
           p == f.pending
           u == f.unread
           rv == Remaining(v, pop)
           ru == Remaining(u, read)
           lu == Leaving(u, read)
<1>0. \A s, t, x \in Seq(W) : (s \o t) \o x = s \o (t \o x)
  BY Joins
<1>1. /\ pop \in BOOLEAN /\ (pop => v # << >>) /\ read \in BOOLEAN /\ (read => u # << >>)
      /\ in \in Offers(W)
      /\ next.visible = rv \o p /\ next.pending = lu /\ next.unread = ru \o in
  <2>1. pop \in BOOLEAN /\ (pop => v # << >>)
    BY DEF Pops, Valid
  <2>2. read \in BOOLEAN /\ (read => u # << >>)
    BY DEF Reads, Room
  <2>3. in \in Offers(W)
    BY DEF Taken, Offers
  <2>4. /\ next.visible = rv \o p /\ next.pending = lu /\ next.unread = ru \o in
    BY DEF Step, Remaining, Leaving, Taken
  <2> QED  BY <2>1, <2>2, <2>3, <2>4, Zenon
<1>2. v \in Seq(W) /\ p \in Seq(W) /\ u \in Seq(W) /\ in \in Seq(W)
  BY <1>1, OfferIsSeq DEF Buffers
<1>3. rv \in Seq(W) /\ ru \in Seq(W) /\ lu \in Seq(W) /\ lu \o ru = u
  BY <1>1, <1>2, Split, OfferIsSeq
<1>4. Contents(next) = ((rv \o p) \o lu) \o (ru \o in) /\ Contents(f) = (v \o p) \o u
  BY <1>1 DEF Contents
<1>5. (pop => rv = Tail(v) /\ Head(v) = Head(f.visible)) /\ (~pop => rv = v)
  BY DEF Remaining
<1> HIDE DEF pop, read, in, v, p, u, rv, ru, lu
<1>6. ((rv \o p) \o lu) \o (ru \o in) = ((rv \o p) \o u) \o in
  <2> DEFINE a == rv \o p
             rest == ru \o in
  <2>1. a \in Seq(W) /\ rest \in Seq(W)
    BY <1>2, <1>3, ConcatProperties
  <2>0. lu \in Seq(W) /\ ru \in Seq(W) /\ in \in Seq(W) /\ u \in Seq(W)
    BY <1>2, <1>3
  <2> HIDE DEF a, rest
  <2>2. (a \o lu) \o rest = a \o (lu \o rest)
    BY <1>0, <2>0, <2>1, SMTT(30)
  <2>3. (lu \o ru) \o in = lu \o (ru \o in)
    BY <1>0, <2>0, Zenon
  <2>4. (a \o u) \o in = a \o (u \o in)
    BY <1>0, <2>0, <2>1, SMTT(30)
  <2> QED  BY <1>3, <2>2, <2>3, <2>4 DEF a, rest
<1>7. CASE pop
  <2>1. v \o p # << >> /\ Head(v \o p) = Head(v) /\ Tail(v \o p) = Tail(v) \o p
        /\ v \o p \in Seq(W)
    BY <1>1, <1>2, <1>7, FrontOfConcat, ConcatProperties
  <2> DEFINE vp == v \o p
  <2> HIDE DEF vp
  <2>2. vp \o u # << >> /\ Head(vp \o u) = Head(vp) /\ Tail(vp \o u) = Tail(vp) \o u
    BY <1>2, <2>1, FrontOfConcat DEF vp
  <2>3. Remaining(Contents(f), pop) = Tail(vp \o u)
    BY <1>4, <1>7 DEF Remaining, vp
  <2> QED  BY <1>4, <1>5, <1>6, <1>7, <2>1, <2>2, <2>3 DEF pop, in, vp
<1>8. CASE ~pop
  <2>1. Remaining(Contents(f), pop) = (v \o p) \o u
    BY <1>4, <1>8 DEF Remaining
  <2> QED  BY <1>4, <1>5, <1>6, <1>8, <2>1 DEF pop, in
<1> QED  BY <1>1, <1>7, <1>8

-------------------------------------------------------------------------------
(* Bounded sets of numbers have a least and a greatest member.                   *)

\* A set of natural numbers has a least member.
LEMMA Least ==
  ASSUME NEW T \in SUBSET Nat, T # {}
  PROVE  \E x \in T : \A y \in T : x <= y
<1> DEFINE R == OpToRel(<, Nat)
<1>1. IsWellFoundedOn(R, Nat)
  BY NatLessThanWellFounded
<1>2. \A x, y \in Nat : <<y, x>> \in R <=> y < x
  BY DEF OpToRel
<1> HIDE DEF R
<1>3. PICK x \in T : \A y \in T : ~ (<<y, x>> \in R)
  BY <1>1, WFMin
<1>4. ASSUME NEW y \in T PROVE x <= y
  <2>1. x \in Nat /\ y \in Nat
    OBVIOUS
  <2>2. ~ (y < x)
    BY <1>2, <1>3, <2>1, Zenon
  <2> QED  BY <2>1, <2>2
<1> QED  BY <1>4

\* A bounded one has a greatest.
LEMMA Greatest ==
  ASSUME NEW n \in Nat, NEW T \in SUBSET (0..n), T # {}
  PROVE  \E x \in T : \A y \in T : y <= x
<1> DEFINE U == {n - y : y \in T}
<1>1. U \in SUBSET Nat
  OBVIOUS
<1>2. U # {}
  OBVIOUS
<1>3. PICK u \in U : \A v \in U : u <= v
  <2> HIDE DEF U
  <2> QED  BY <1>1, <1>2, Least
<1>4. PICK x \in T : u = n - x
  OBVIOUS
<1>5. ASSUME NEW y \in T PROVE y <= x
  <2>1. n - y \in U
    OBVIOUS
  <2>2. n - x <= n - y
    BY <2>1, <1>3, <1>4
  <2>3. x \in 0..n /\ y \in 0..n
    OBVIOUS
  <2> QED  BY <2>2, <2>3
<1> QED  BY <1>5

-------------------------------------------------------------------------------
(* Counting the places of a sequence that hold a member of a set.                *)

Places(s, M) == {i \in DOMAIN s : s[i] \in M}
CountIn(s, M) == Cardinality(Places(s, M))

Bit(b) == IF b THEN 1 ELSE 0

\* The places are finitely many.
LEMMA PlacesFinite ==
  ASSUME NEW S, NEW s \in Seq(S), NEW M
  PROVE  /\ Places(s, M) = {i \in 1..Len(s) : s[i] \in M}
         /\ IsFiniteSet(Places(s, M)) /\ CountIn(s, M) \in Nat
<1>1. DOMAIN s = 1..Len(s) /\ Len(s) \in Nat
  BY LenProperties
<1>2. IsFiniteSet(1..Len(s))
  BY <1>1, FS_Interval
<1>3. Places(s, M) = {i \in 1..Len(s) : s[i] \in M}
  BY <1>1 DEF Places
<1>4. IsFiniteSet(Places(s, M))
  BY <1>2, <1>3, FS_Subset
<1> QED  BY <1>3, <1>4, FS_CardinalityType DEF CountIn

\* Nothing is in the empty sequence.
LEMMA CountEmpty == ASSUME NEW M PROVE CountIn(<< >>, M) = 0
<1>1. Places(<< >>, M) = {}
  BY DEF Places
<1> QED  BY <1>1, FS_EmptySet DEF CountIn

\* What is appended counts once.
LEMMA CountAppend ==
  ASSUME NEW S, NEW s \in Seq(S), NEW x \in S, NEW M
  PROVE  CountIn(Append(s, x), M) = CountIn(s, M) + Bit(x \in M)
<1> DEFINE n == Len(s)
           t == Append(s, x)
<1>1. t \in Seq(S) /\ Len(t) = n + 1 /\ n \in Nat
      /\ (\A i \in 1..n : t[i] = s[i]) /\ t[n + 1] = x
  BY AppendProperties, LenProperties
<1>2. /\ Places(s, M) = {i \in 1..n : s[i] \in M} /\ IsFiniteSet(Places(s, M))
      /\ Places(t, M) = {i \in 1..n + 1 : t[i] \in M} /\ CountIn(s, M) \in Nat
  <2>1. Places(t, M) = {i \in 1..Len(t) : t[i] \in M}
    <3> HIDE DEF t
    <3> QED  BY <1>1, PlacesFinite
  <2>2. Len(t) = n + 1
    BY <1>1
  <2> QED  BY <2>1, <2>2, PlacesFinite
<1> HIDE DEF t, n
<1>3. CASE x \in M
  <2>1. Places(t, M) = Places(s, M) \cup {n + 1} /\ n + 1 \notin Places(s, M)
    BY <1>1, <1>2, <1>3
  <2> QED  BY <1>2, <1>3, <2>1, FS_AddElement DEF CountIn, Bit, t
<1>4. CASE x \notin M
  <2>1. Places(t, M) = Places(s, M)
    BY <1>1, <1>2, <1>4
  <2>2. CountIn(t, M) = CountIn(s, M) /\ Bit(x \in M) = 0
    BY <1>4, <2>1 DEF CountIn, Bit
  <2>3. CountIn(s, M) + 0 = CountIn(s, M)
    BY <1>2
  <2> QED  BY <2>2, <2>3, Zenon DEF t
<1> QED  BY <1>3, <1>4

\* What follows the first n places holds what they do not.
LEMMA CountRest ==
  ASSUME NEW S, NEW s \in Seq(S), NEW n \in 0..Len(s), NEW M
  PROVE  /\ SubSeq(s, n + 1, Len(s)) \in Seq(S) /\ Len(SubSeq(s, n + 1, Len(s))) = Len(s) - n
         /\ \A i \in 1..Len(s) - n : SubSeq(s, n + 1, Len(s))[i] = s[i + n]
         /\ Cardinality({i \in 1..n : s[i] \in M}) \in Nat
         /\ CountIn(s, M) = Cardinality({i \in 1..n : s[i] \in M})
                            + CountIn(SubSeq(s, n + 1, Len(s)), M)
<1> DEFINE l == Len(s)
           t == SubSeq(s, n + 1, l)
           front == {i \in 1..n : s[i] \in M}
           back == {i \in n + 1..l : s[i] \in M}
<1>1. l \in Nat /\ n \in Nat /\ n <= l
  BY LenProperties
<1>2. \A i \in n + 1..l : s[i] \in S
  BY <1>1, ElementOfSeq
<1>3. t \in Seq(S) /\ Len(t) = l - n /\ \A i \in 1..l - n : t[i] = s[i + n]
  <2> HIDE DEF l
  <2>1. /\ t \in Seq(S) /\ Len(t) = IF n + 1 <= l THEN l - (n + 1) + 1 ELSE 0
        /\ \A i \in 1..l - (n + 1) + 1 : t[i] = s[n + 1 + i - 1]
    BY <1>1, <1>2, SubSeqProperties
  <2>2. l - (n + 1) + 1 = l - n
    BY <1>1
  <2>3. \A i \in 1..l - n : n + 1 + i - 1 = i + n
    BY <1>1
  <2>4. (IF n + 1 <= l THEN l - n ELSE 0) = l - n
    BY <1>1
  <2> HIDE DEF t
  <2> QED  BY <2>1, <2>2, <2>3, <2>4
<1>4. Places(t, M) = {i \in 1..l - n : t[i] \in M} /\ IsFiniteSet(Places(t, M)) /\ CountIn(t, M) \in Nat
  <2> HIDE DEF t
  <2> QED  BY <1>3, PlacesFinite
<1>5. Places(s, M) = {i \in 1..l : s[i] \in M} /\ IsFiniteSet(Places(s, M))
  BY PlacesFinite
<1> HIDE DEF l, t
<1>6. Places(s, M) = front \cup back /\ front \cap back = {}
  BY <1>1, <1>5
<1>7. IsFiniteSet(front) /\ IsFiniteSet(back)
  BY <1>5, <1>6, FS_Subset
<1>8. Cardinality(Places(t, M)) = Cardinality(back)
  <2> DEFINE F == [i \in Places(t, M) |-> i + n]
  <2>1. F \in [Places(t, M) -> back]
    BY <1>1, <1>3, <1>4
  <2>2. \A a, b \in Places(t, M) : F[a] = F[b] => a = b
    BY <1>1, <1>4
  <2>3. ASSUME NEW j \in back PROVE \E i \in Places(t, M) : F[i] = j
    <3>1. j - n \in 1..l - n /\ (j - n) + n = j
      BY <1>1
    <3>2. j - n \in Places(t, M)
      BY <3>1, <1>3, <1>4
    <3> QED  BY <3>1, <3>2
  <2>4. F \in Bijection(Places(t, M), back)
    <3> HIDE DEF F, back
    <3> QED  BY <2>1, <2>2, <2>3, Fun_IsBij
  <2>5. ExistsBijection(Places(t, M), back)
    <3> HIDE DEF F, back
    <3> QED  BY <2>4, Fun_ExistsBij
  <2> HIDE DEF back
  <2> QED  BY <1>4, <2>5, FS_Bijection
<1> HIDE DEF front, back
<1>9. Cardinality(front \cup back) = Cardinality(front) + Cardinality(back)
  <2>1. Cardinality(front) \in Nat /\ Cardinality(back) \in Nat /\ Cardinality(front \cap back) = 0
    BY <1>6, <1>7, FS_CardinalityType, FS_EmptySet
  <2> QED  BY <1>7, <2>1, FS_Union
<1>10. Cardinality(front) \in Nat
  BY <1>7, FS_CardinalityType
<1> QED  BY <1>3, <1>6, <1>8, <1>9, <1>10 DEF CountIn, front, t, l

\* When the first n are alike, they count together or not at all.
LEMMA CountAlike ==
  ASSUME NEW S, NEW s \in Seq(S), NEW n \in 0..Len(s), \A i \in 1..n : s[i] = s[1], NEW M
  PROVE  /\ s[1] \in M => CountIn(s, M) = n + CountIn(SubSeq(s, n + 1, Len(s)), M)
         /\ s[1] \notin M => CountIn(s, M) = CountIn(SubSeq(s, n + 1, Len(s)), M)
<1> DEFINE rest == CountIn(SubSeq(s, n + 1, Len(s)), M)
           front == {i \in 1..n : s[i] \in M}
<1>1. n \in Nat
  BY LenProperties
<1>2. CountIn(s, M) = Cardinality(front) + rest
  BY CountRest
<1>3. rest \in Nat
  <2>1. SubSeq(s, n + 1, Len(s)) \in Seq(S)
    BY CountRest
  <2> QED  BY <2>1, PlacesFinite
<1> HIDE DEF rest
<1>4. CASE s[1] \in M
  <2>1. front = 1..n
    BY <1>4
  <2>2. Cardinality(1..n) = n
    BY <1>1, FS_Interval
  <2>3. Cardinality(front) = n
    BY <2>1, <2>2, Zenon
  <2> QED  BY <1>2, <1>4, <2>3 DEF rest
<1>5. CASE s[1] \notin M
  <2>1. front = {}
    BY <1>5
  <2>2. Cardinality(front) = 0
    BY <2>1, FS_EmptySet
  <2>3. CountIn(s, M) = rest
    BY <1>2, <1>3, <2>2
  <2> QED  BY <1>5, <2>3 DEF rest
<1> QED  BY <1>4, <1>5

-------------------------------------------------------------------------------
(* Merging.                                                                      *)

Alike(q) == {n \in 1..Len(q) : n <= Batch /\ \A i \in 1..n : q[i] = q[1]}

\* A grant takes as many equal records from the front as there are, up to a batch.
LEMMA MergedIs ==
  ASSUME NEW S, NEW q \in Seq(S)
  PROVE  /\ Merged(q) \in Alike(q) \cup {0} /\ \A m \in Alike(q) : m <= Merged(q)
         /\ Merged(q) \in 0..Len(q) /\ Merged(q) <= Batch
         /\ \A i \in 1..Merged(q) : q[i] = q[1]
         /\ q # << >> => Merged(q) > 0
<1>1. Len(q) \in Nat /\ Batch \in Nat \ {0}
  BY LenProperties, CreditAssumption
<1>2. Alike(q) \cup {0} \in SUBSET (0..Len(q))
  BY <1>1 DEF Alike
<1>3. \E x \in Alike(q) \cup {0} : \A y \in Alike(q) \cup {0} : y <= x
  BY <1>1, <1>2, Greatest
<1>4. Merged(q) = CHOOSE n \in Alike(q) \cup {0} : \A m \in Alike(q) : m <= n
  BY Zenon DEF Merged, Alike
<1>5. Merged(q) \in Alike(q) \cup {0} /\ \A m \in Alike(q) : m <= Merged(q)
  BY <1>3, <1>4, Zenon
<1>6. Merged(q) \in 0..Len(q)
  BY <1>2, <1>5
<1>7. Merged(q) <= Batch /\ \A i \in 1..Merged(q) : q[i] = q[1]
  BY <1>1, <1>5 DEF Alike
<1>8. ASSUME q # << >> PROVE Merged(q) > 0
  <2>1. Len(q) > 0
    BY <1>1, <1>8, EmptySeq
  <2>2. 1 \in Alike(q)
    BY <1>1, <2>1 DEF Alike
  <2>3. 1 <= Merged(q)
    BY <1>5, <2>2
  <2> QED  BY <1>6, <2>3
<1> QED  BY <1>5, <1>6, <1>7, <1>8

-------------------------------------------------------------------------------
(* An edge of the queue.                                                         *)

GrantRecords == [vc : 0..(VCs - 1), pool : BOOLEAN, count : 1..Batch] \cup {NoGrant}
MetaIn(g) == [vc |-> g.vc, pool |-> g.pool]

\* The queue holds records of its ports, as many as there are places.
ReturnsOK(r) ==
  /\ r = [queue |-> r.queue, grants |-> r.grants]
  /\ r.queue \in [Ports -> Seq(Metas)] /\ r.grants \in [Ports -> GrantRecords]
  /\ \A p \in Ports : Len(r.queue[p]) <= ReturnDepth

BeatsOf(ports) == [port : ports, meta : Metas]
Single(beats) == \A b, c \in beats : b = c

\* What leaves a port, stays, and enters.
Out(r, p, enabled) == IF p \in enabled THEN Merged(r.queue[p]) ELSE 0
Rest(r, p, enabled) == SubSeq(r.queue[p], Out(r, p, enabled) + 1, Len(r.queue[p]))
In(r, p, beats) == {b.meta : b \in {b \in beats : b.port = p /\ ReturnReady(r, p)}}

\* Each port drops what its grant returns and takes what is retired of its beats.
LEMMA ReturnPort ==
  ASSUME NEW r, ReturnsOK(r), NEW beats \in SUBSET BeatsOf(Ports), Single(beats),
         NEW enabled, NEW p \in Ports
  PROVE  /\ Out(r, p, enabled) \in 0..Len(r.queue[p]) /\ Out(r, p, enabled) <= Batch
         /\ \A i \in 1..Out(r, p, enabled) : r.queue[p][i] = r.queue[p][1]
         /\ Rest(r, p, enabled) \in Seq(Metas)
         /\ Len(Rest(r, p, enabled)) = Len(r.queue[p]) - Out(r, p, enabled)
         /\ In(r, p, beats) = {} \/ \E m \in Metas : In(r, p, beats) = {m}
         /\ In(r, p, beats) # {} => Len(r.queue[p]) < ReturnDepth
         /\ In(r, p, beats) = {} => Return(r, beats, enabled).queue[p] = Rest(r, p, enabled)
         /\ \A m \in Metas : In(r, p, beats) = {m} =>
              Return(r, beats, enabled).queue[p] = Append(Rest(r, p, enabled), m)
         /\ Out(r, p, enabled) = 0 => Return(r, beats, enabled).grants[p] = NoGrant
         /\ Out(r, p, enabled) > 0 =>
              /\ r.queue[p][1] \in Metas
              /\ Return(r, beats, enabled).grants[p]
                   = [vc |-> r.queue[p][1].vc, pool |-> r.queue[p][1].pool,
                      count |-> Out(r, p, enabled)]
<1> DEFINE q == r.queue[p]
           n == Out(r, p, enabled)
           accepted == {b \in beats : ReturnReady(r, b.port)}
           here == {b \in beats : b.port = p /\ ReturnReady(r, p)}
           after == Return(r, beats, enabled)
<1>1. q \in Seq(Metas) /\ Len(q) \in Nat
  <2>1. q \in Seq(Metas)
    BY DEF ReturnsOK
  <2> QED  BY <2>1, LenProperties
<1>2. /\ Merged(q) \in 0..Len(q) /\ Merged(q) <= Batch
      /\ \A i \in 1..Merged(q) : q[i] = q[1]
      /\ q # << >> => Merged(q) > 0
  <2> HIDE DEF q
  <2> QED  BY <1>1, MergedIs
<1>3. /\ n \in 0..Len(q) /\ n <= Batch /\ \A i \in 1..n : q[i] = q[1]
  <2>1. CASE p \in enabled
    BY <1>2, <2>1 DEF Out
  <2>2. CASE p \notin enabled
    BY <1>1, <2>2, CreditAssumption DEF Out
  <2> QED  BY <2>1, <2>2
<1>4. Rest(r, p, enabled) \in Seq(Metas) /\ Len(Rest(r, p, enabled)) = Len(q) - n
  BY <1>1, <1>3, CountRest DEF Rest
<1>5. here = {} \/ \E b \in beats : here = {b}
  BY DEF Single
<1>6. In(r, p, beats) = {} \/ \E m \in Metas : In(r, p, beats) = {m}
  BY <1>5 DEF In, BeatsOf
<1>7. In(r, p, beats) # {} => Len(q) < ReturnDepth
  BY DEF In, ReturnReady
<1>8. after.queue[p] = IF \E b \in accepted : b.port = p
                       THEN Append(IF p \in enabled THEN SubSeq(q, Merged(q) + 1, Len(q)) ELSE q,
                                   (CHOOSE b \in accepted : TRUE).meta)
                       ELSE IF p \in enabled THEN SubSeq(q, Merged(q) + 1, Len(q)) ELSE q
  BY DEF Return
<1>9. Rest(r, p, enabled) = IF p \in enabled THEN SubSeq(q, Merged(q) + 1, Len(q)) ELSE q
  <2>1. CASE p \in enabled
    BY <2>1 DEF Rest, Out
  <2>2. CASE p \notin enabled
    <3>1. SubSeq(q, 0 + 1, Len(q)) = q
      BY <1>1, SubSeqFull
    <3> QED  BY <2>2, <3>1 DEF Rest, Out
  <2> QED  BY <2>1, <2>2
<1>10. In(r, p, beats) = {} <=> ~ \E b \in accepted : b.port = p
  BY DEF In
<1>11. \A m \in Metas : In(r, p, beats) = {m} => (CHOOSE b \in accepted : TRUE).meta = m
  <2> SUFFICES ASSUME NEW m \in Metas, In(r, p, beats) = {m}
               PROVE  (CHOOSE b \in accepted : TRUE).meta = m
    OBVIOUS
  <2>1. PICK b \in beats : here = {b} /\ b.meta = m
    BY <1>5 DEF In
  <2>2. accepted = {b}
    BY <2>1 DEF Single
  <2>3. (CHOOSE c \in {b} : TRUE) = b
    OBVIOUS
  <2> QED  BY <2>1, <2>2, <2>3
<1>12. n = 0 => after.grants[p] = NoGrant
  BY <1>2 DEF Return, Out, ReturnGrant
<1>13. n > 0 => /\ q[1] \in Metas
                /\ after.grants[p] = [vc |-> q[1].vc, pool |-> q[1].pool, count |-> n]
  <2> SUFFICES ASSUME n > 0 PROVE /\ q[1] \in Metas
                /\ after.grants[p] = [vc |-> q[1].vc, pool |-> q[1].pool, count |-> n]
    OBVIOUS
  <2>1. p \in enabled /\ n = Merged(q)
    BY DEF Out
  <2>2. 1 \in 1..Len(q)
    BY <1>1, <1>3
  <2>3. q[1] \in Metas
    BY <1>1, <2>2, ElementOfSeq
  <2>4. q # << >>
    BY <1>1, <2>2, EmptySeq
  <2> QED  BY <2>1, <2>3, <2>4 DEF Return, ReturnGrant
<1> HIDE DEF q, n, after, accepted, here
<1>14. In(r, p, beats) = {} => after.queue[p] = Rest(r, p, enabled)
  BY <1>8, <1>9, <1>10, Zenon
<1>15. \A m \in Metas : In(r, p, beats) = {m} =>
         after.queue[p] = Append(Rest(r, p, enabled), m)
  <2> SUFFICES ASSUME NEW m \in Metas, In(r, p, beats) = {m}
               PROVE  after.queue[p] = Append(Rest(r, p, enabled), m)
    OBVIOUS
  <2>1. \E b \in accepted : b.port = p
    BY <1>10
  <2> QED  BY <1>8, <1>9, <1>11, <2>1, Zenon
<1> QED  BY <1>3, <1>4, <1>6, <1>7, <1>12, <1>13, <1>14, <1>15, Zenon DEF q, n, after

\* After a reset the queues are empty and nothing is granted.
LEMMA ResetReturns == ReturnsOK(ReturnsReset)
<1>1. << >> \in Seq(Metas) /\ Len(<< >>) = 0
  BY EmptySeq
<1>2. NoGrant \in GrantRecords
  BY DEF GrantRecords
<1> QED  BY <1>1, <1>2, ReturnAssumption DEF ReturnsOK, ReturnsReset

\* An edge keeps each queue within its places.
LEMMA ReturnKeeps ==
  ASSUME NEW r, ReturnsOK(r), NEW beats \in SUBSET BeatsOf(Ports), Single(beats), NEW enabled
  PROVE  ReturnsOK(Return(r, beats, enabled))
<1> DEFINE after == Return(r, beats, enabled)
<1>1. ASSUME NEW p \in Ports
      PROVE  /\ after.queue[p] \in Seq(Metas) /\ Len(after.queue[p]) <= ReturnDepth
             /\ after.grants[p] \in GrantRecords
  <2> DEFINE l == Len(r.queue[p])
             n == Out(r, p, enabled)
             rest == Rest(r, p, enabled)
  <2>1. /\ n \in 0..l /\ n <= Batch /\ rest \in Seq(Metas) /\ Len(rest) = l - n
        /\ In(r, p, beats) = {} \/ \E m \in Metas : In(r, p, beats) = {m}
        /\ In(r, p, beats) # {} => l < ReturnDepth
        /\ In(r, p, beats) = {} => after.queue[p] = rest
        /\ \A m \in Metas : In(r, p, beats) = {m} => after.queue[p] = Append(rest, m)
        /\ n = 0 => after.grants[p] = NoGrant
        /\ n > 0 => /\ r.queue[p][1] \in Metas
                    /\ after.grants[p] = [vc |-> r.queue[p][1].vc, pool |-> r.queue[p][1].pool,
                                          count |-> n]
    BY <1>1, ReturnPort
  <2>2. l \in Nat /\ l <= ReturnDepth /\ ReturnDepth \in Nat
    BY LenProperties, ReturnAssumption DEF ReturnsOK
  <2> HIDE DEF l, n, rest, after
  <2>3. after.grants[p] \in GrantRecords
    <3>1. CASE n = 0
      BY <2>1, <3>1 DEF GrantRecords
    <3>2. CASE n > 0
      <4>1. r.queue[p][1].vc \in 0..(VCs - 1) /\ r.queue[p][1].pool \in BOOLEAN
        BY <2>1, <3>2 DEF Metas
      <4>2. n \in 1..Batch
        BY <2>1, <2>2, <3>2, CreditAssumption
      <4> QED  BY <2>1, <3>2, <4>1, <4>2 DEF GrantRecords
    <3> QED  BY <2>1, <2>2, <3>1, <3>2
  <2>4. CASE In(r, p, beats) = {}
    BY <2>1, <2>2, <2>3, <2>4
  <2>5. ASSUME NEW m \in Metas, In(r, p, beats) = {m}
        PROVE  after.queue[p] \in Seq(Metas) /\ Len(after.queue[p]) <= ReturnDepth
    <3>1. Append(rest, m) \in Seq(Metas) /\ Len(Append(rest, m)) = Len(rest) + 1
      BY <2>1, AppendProperties
    <3>2. l < ReturnDepth
      BY <2>1, <2>5
    <3>3. Len(rest) = l - n /\ n \in 0..l
      BY <2>1
    <3>4. Len(Append(rest, m)) <= ReturnDepth
      BY <2>2, <3>1, <3>2, <3>3
    <3>5. after.queue[p] = Append(rest, m)
      BY <2>1, <2>5
    <3> QED  BY <3>1, <3>4, <3>5
  <2> QED  BY <2>1, <2>3, <2>4, <2>5
<1>2. after = [queue |-> after.queue, grants |-> after.grants]
      /\ DOMAIN after.queue = Ports /\ DOMAIN after.grants = Ports
  BY DEF Return
<1>3. /\ after.queue = [p \in Ports |-> after.queue[p]]
      /\ after.grants = [p \in Ports |-> after.grants[p]]
  BY DEF Return
<1> HIDE DEF after
<1> QED  BY <1>1, <1>2, <1>3 DEF ReturnsOK, after

\* Whether a record whose meta is in M enters at port p, as a number.
Enters(r, p, beats, M) == IF \E m \in M : m \in In(r, p, beats) THEN 1 ELSE 0

\* Records are counted: a grant takes its count of one meta, a beat adds one.
LEMMA ReturnCounts ==
  ASSUME NEW r, ReturnsOK(r), NEW beats \in SUBSET BeatsOf(Ports), Single(beats), NEW enabled,
         NEW p \in Ports, NEW M
  PROVE  LET g == Return(r, beats, enabled).grants[p]
         IN  /\ CountIn(r.queue[p], M) \in Nat /\ g.count \in 0..Batch
             /\ g # NoGrant => MetaIn(g) \in Metas
             /\ MetaIn(g) \in M => g.count <= CountIn(r.queue[p], M)
             /\ CountIn(Return(r, beats, enabled).queue[p], M)
                  = CountIn(r.queue[p], M) - (IF MetaIn(g) \in M THEN g.count ELSE 0)
                    + Enters(r, p, beats, M)
<1> DEFINE after == Return(r, beats, enabled)
           g == after.grants[p]
           q == r.queue[p]
           n == Out(r, p, enabled)
           rest == Rest(r, p, enabled)
           in == Enters(r, p, beats, M)
           taken == IF MetaIn(g) \in M THEN g.count ELSE 0
<1>1. /\ n \in 0..Len(q) /\ n <= Batch /\ rest \in Seq(Metas)
      /\ \A i \in 1..n : q[i] = q[1]
      /\ In(r, p, beats) = {} \/ \E m \in Metas : In(r, p, beats) = {m}
      /\ In(r, p, beats) = {} => after.queue[p] = rest
      /\ \A m \in Metas : In(r, p, beats) = {m} => after.queue[p] = Append(rest, m)
      /\ n = 0 => g = NoGrant
      /\ n > 0 => /\ q[1] \in Metas
                  /\ g = [vc |-> q[1].vc, pool |-> q[1].pool, count |-> n]
  BY ReturnPort
<1>2. q \in Seq(Metas) /\ rest = SubSeq(q, n + 1, Len(q))
  BY DEF ReturnsOK, Rest
<1>3. Len(q) \in Nat /\ CountIn(q, M) \in Nat /\ CountIn(rest, M) \in Nat
  BY <1>1, <1>2, LenProperties, PlacesFinite
<1>4. /\ q[1] \in M => CountIn(q, M) = n + CountIn(rest, M)
      /\ q[1] \notin M => CountIn(q, M) = CountIn(rest, M)
  <2> HIDE DEF q, n
  <2> QED  BY <1>1, <1>2, CountAlike
<1> HIDE DEF after, g, q, n, rest
<1>5. taken \in Nat /\ CountIn(rest, M) = CountIn(q, M) - taken /\ g.count \in 0..Batch
      /\ (g # NoGrant => MetaIn(g) \in Metas)
  <2>1. CASE n = 0
    <3>1. g = NoGrant /\ g.count = 0
      BY <1>1, <2>1 DEF NoGrant
    <3>2. CountIn(q, M) = CountIn(rest, M)
      BY <1>3, <1>4, <2>1
    <3> QED  BY <1>3, <3>1, <3>2, CreditAssumption
  <2>2. CASE n > 0
    <3>1. q[1] = [vc |-> q[1].vc, pool |-> q[1].pool] /\ q[1] \in Metas
      BY <1>1, <2>2 DEF Metas
    <3>2. MetaIn(g) = q[1] /\ g.count = n
      BY <1>1, <2>2, <3>1 DEF MetaIn
    <3>3. n \in Nat
      BY <1>1, <1>3
    <3> QED  BY <1>1, <1>3, <1>4, <3>1, <3>2, <3>3, CreditAssumption
  <2> QED  BY <1>1, <1>3, <2>1, <2>2
<1>6. CountIn(after.queue[p], M) = CountIn(rest, M) + in
  <2>1. CASE In(r, p, beats) = {}
    BY <1>1, <1>3, <2>1 DEF Enters
  <2>2. ASSUME NEW m \in Metas, In(r, p, beats) = {m}
        PROVE  CountIn(after.queue[p], M) = CountIn(rest, M) + in
    <3>1. CountIn(Append(rest, m), M) = CountIn(rest, M) + Bit(m \in M)
      BY <1>1, CountAppend
    <3>2. in = Bit(m \in M)
      BY <2>2 DEF Bit, Enters
    <3> QED  BY <1>1, <2>2, <3>1, <3>2
  <2> QED  BY <1>1, <2>1, <2>2
<1>7. in \in {0, 1}
  BY DEF Enters
<1> HIDE DEF taken, in
<1>8. CountIn(after.queue[p], M) = CountIn(q, M) - taken + in /\ taken <= CountIn(q, M)
  BY <1>3, <1>5, <1>6, <1>7
<1>9. MetaIn(g) \in M => g.count <= CountIn(q, M)
  BY <1>8 DEF taken
<1> QED  BY <1>3, <1>5, <1>8, <1>9, Zenon DEF after, g, q, taken, in

\* The same for the records that wait, meta by meta.
LEMMA ReturnWaits ==
  ASSUME NEW r, ReturnsOK(r), NEW beats \in SUBSET BeatsOf(Ports), Single(beats),
         \A b \in beats : ReturnReady(r, b.port), NEW enabled, NEW p \in Ports, NEW m \in Metas
  PROVE  LET g == Return(r, beats, enabled).grants[p]
         IN  /\ Waiting(r)[p][m] \in Nat /\ g.count \in Nat
             /\ g # NoGrant => MetaIn(g) \in Metas
             /\ MetaIn(g) = m => g.count <= Waiting(r)[p][m]
             /\ Waiting(Return(r, beats, enabled))[p][m]
                  = Waiting(r)[p][m] + (IF [port |-> p, meta |-> m] \in beats THEN 1 ELSE 0)
                    - (IF MetaIn(g) = m THEN g.count ELSE 0)
<1> DEFINE after == Return(r, beats, enabled)
           g == after.grants[p]
           before == CountIn(r.queue[p], {m})
           behind == CountIn(after.queue[p], {m})
           taken == IF MetaIn(g) = m THEN g.count ELSE 0
           added == IF [port |-> p, meta |-> m] \in beats THEN 1 ELSE 0
           M == {m}
<1>1. /\ before \in Nat /\ g.count \in 0..Batch
      /\ g # NoGrant => MetaIn(g) \in Metas
      /\ MetaIn(g) \in {m} => g.count <= before
      /\ behind = (before - (IF MetaIn(g) \in {m} THEN g.count ELSE 0))
                  + Enters(r, p, beats, {m})
  <2> HIDE DEF M
  <2>1. /\ CountIn(r.queue[p], M) \in Nat /\ g.count \in 0..Batch
        /\ g # NoGrant => MetaIn(g) \in Metas
        /\ MetaIn(g) \in M => g.count <= CountIn(r.queue[p], M)
        /\ CountIn(after.queue[p], M)
             = (CountIn(r.queue[p], M) - (IF MetaIn(g) \in M THEN g.count ELSE 0))
               + Enters(r, p, beats, M)
    BY ReturnCounts
  <2> QED  BY <2>1, Zenon DEF M
<1>2. \A s : Places(s, {m}) = {i \in DOMAIN s : s[i] = m}
  BY DEF Places
<1>3. Waiting(r)[p][m] = before /\ Waiting(after)[p][m] = behind
  BY <1>2 DEF Waiting, CountIn
<1>4. Enters(r, p, beats, {m}) = added
  <2>1. m \in In(r, p, beats) <=> [port |-> p, meta |-> m] \in beats
    <3>1. ASSUME m \in In(r, p, beats) PROVE [port |-> p, meta |-> m] \in beats
      <4>1. PICK b \in beats : b.port = p /\ b.meta = m
        BY <3>1 DEF In
      <4>2. b = [port |-> p, meta |-> m]
        BY <4>1 DEF BeatsOf
      <4> QED  BY <4>2
    <3>2. ASSUME [port |-> p, meta |-> m] \in beats PROVE m \in In(r, p, beats)
      <4>1. ReturnReady(r, p)
        BY <3>2
      <4> QED  BY <3>2, <4>1 DEF In
    <3> QED  BY <3>1, <3>2
  <2> QED  BY <2>1 DEF Enters
<1>5. (IF MetaIn(g) \in {m} THEN g.count ELSE 0) = taken
  OBVIOUS
<1>6. g.count \in Nat
  BY <1>1, CreditAssumption
<1>7. added \in {0, 1} /\ taken \in Nat
  BY <1>6
<1>8. MetaIn(g) = m => g.count <= before
  BY <1>1
<1> HIDE DEF after, g, before, behind, taken, added
<1>9. behind = (before - taken) + added
  BY <1>1, <1>4, <1>5, Zenon
<1>10. behind = before + (added - taken)
  <2>1. before \in Nat /\ added \in 0..1 /\ taken \in Nat
    BY <1>1, <1>7
  <2> QED  BY <1>9, <2>1
<1> QED  BY <1>1, <1>3, <1>6, <1>8, <1>10, Zenon DEF after, g, taken, added

-------------------------------------------------------------------------------
(* What is kept, part by part.                                                   *)

SignalLevels == [orig_req : BOOLEAN, comp_ack : BOOLEAN, comp_req : BOOLEAN, orig_ack : BOOLEAN]

\* No level is up before the first edge after a reset.
ControllerOK(k) ==
  /\ k \in [signals : SignalLevels, running : BOOLEAN, low : Nat, waits : BOOLEAN]
  /\ ~k.running => k.signals = Disconnected

\* A publisher is within the account it is at; it is done once all are published.
PublisherOK(k, p) ==
  /\ k.account[p] \in 0..(Pool + 1) /\ k.issued[p] \in Nat /\ k.grants[p] \in GrantRecords
  /\ k.account[p] > Pool => k.issued[p] = 0
  /\ k.account[p] <= Pool => k.issued[p] = 0 \/ k.issued[p] < Capacity[p][k.account[p]]
  /\ p \in k.done => k.account[p] > Pool /\ k.grants[p] = NoGrant

\* The words of an account's FIFO are beats of that account.
WordsOf(a) == {m \in Metas : AccountOf(m) = a}

\* Returned credit and the sender's confirmation come after the published credit.
OrderKept(l, r, p) ==
  /\ r.returns.grants[p] # NoGrant => p \in r.initial.done
  /\ p \in l.initialized => p \in r.initial.done
  /\ l.streak[p] \in Nat
  /\ p \notin l.initialized => l.streak[p] < Stable

ReceiverOK(r) ==
  /\ ReturnsOK(r.returns)
  /\ \A p \in Ports : PublisherOK(r.initial, p)
  /\ \A pa \in Accounts : r.fifo[pa] \in Buffers(WordsOf(pa[2]))

\* The credit of an account, wherever it is.
Left(k, p, a) ==
  IF a < k.account[p] THEN 0
  ELSE IF a = k.account[p] THEN Capacity[p][a] - k.issued[p] ELSE Capacity[p][a]

LoopInv ==
  /\ ControllerOK(controller) /\ ReceiverOK(receiver)
  /\ \A p \in Ports : OrderKept(ledger, receiver, p)
  /\ \A pa \in Accounts : ledger.balance[pa] \in Nat
  /\ CreditConserved /\ BusIsLegal

-------------------------------------------------------------------------------
(* The publisher.                                                                *)

\* An absent grant gives nothing.
LEMMA NothingGranted == \A a : Granted(NoGrant, a) = 0
BY DEF Granted, NoGrant

\* An edge of the publisher takes what it grants from what it has left, and keeps
\* to its schedule.
LEMMA PublishPort ==
  ASSUME NEW k, NEW p \in Ports, PublisherOK(k, p), NEW a \in 0..Pool
  PROVE  /\ PublisherOK(Publish(k, TRUE), p)
         /\ p \in k.done => p \in Publish(k, TRUE).done
         /\ Left(k, p, a) \in Nat
         /\ Left(Publish(k, TRUE), p, a)
              = Left(k, p, a) - Granted(Publish(k, TRUE).grants[p], a)
<1> DEFINE next == Publish(k, TRUE)
           at == k.account[p]
           issued == k.issued[p]
           cap == Capacity[p][at]
           mine == Capacity[p][a]
           left == cap - issued
           count == IF left < Batch THEN left ELSE Batch
           g == next.grants[p]
<1>1. /\ at \in 0..(Pool + 1) /\ issued \in Nat /\ VCs \in Nat \ {0} /\ Batch \in Nat \ {0} /\ Pool = VCs
      /\ mine \in Nat
      /\ at <= Pool => cap \in Nat
      /\ at > Pool => issued = 0
      /\ at <= Pool => issued = 0 \/ issued < cap
  BY CreditAssumption DEF PublisherOK, Pool
<1>2. CASE at > Pool
  <2>1. next.account[p] = at /\ next.issued[p] = 0 /\ g = NoGrant /\ p \in next.done
    BY <1>2 DEF Publish, Published, InitialGrant
  <2>2. Granted(g, a) = 0
    <3> HIDE DEF g
    <3> QED  BY <2>1, NothingGranted
  <2>3. PublisherOK(next, p)
    <3> HIDE DEF next
    <3> QED  BY <1>1, <1>2, <2>1 DEF PublisherOK, GrantRecords
  <2>4. Left(k, p, a) = 0 /\ Left(next, p, a) = 0
    <3> HIDE DEF next
    <3> QED  BY <1>1, <1>2, <2>1 DEF Left
  <2> HIDE DEF next
  <2>5. Left(next, p, a) = Left(k, p, a) - Granted(g, a) /\ Left(k, p, a) \in Nat
    <3> HIDE DEF g
    <3> QED  BY <2>2, <2>4
  <2> QED  BY <2>1, <2>3, <2>5, Zenon DEF next, g
<1>3. CASE at <= Pool
  <2> DEFINE made == [vc |-> IF at = Pool THEN 0 ELSE at, pool |-> at = Pool, count |-> count]
  <2>1. g = IF cap = 0 THEN NoGrant ELSE made
    BY <1>1, <1>3 DEF Publish, Published, InitialGrant
  <2>2. p \notin k.done
    BY <1>1, <1>3 DEF PublisherOK
  <2>3. p \notin next.done
    BY <1>1, <1>3 DEF Publish, Published
  <2>4. cap # 0 => made \in GrantRecords /\ AccountOf(made) = at /\ count \in 1..Batch
    <3> SUFFICES ASSUME cap # 0
                 PROVE  made \in GrantRecords /\ AccountOf(made) = at /\ count \in 1..Batch
      OBVIOUS
    <3>1. count \in 1..Batch
      <4>1. left \in Nat \ {0}
        BY <1>1, <1>3
      <4> QED  BY <1>1, <4>1
    <3>2. (IF at = Pool THEN 0 ELSE at) \in 0..(VCs - 1) /\ (at = Pool) \in BOOLEAN
      BY <1>1, <1>3
    <3>3. AccountOf(made) = at
      BY <1>1, <1>3 DEF AccountOf
    <3> QED  BY <3>1, <3>2, <3>3 DEF GrantRecords
  <2>5. /\ cap = 0 => Granted(g, a) = 0
        /\ cap # 0 => Granted(g, a) = IF a = at THEN count ELSE 0
    <3>1. ASSUME cap = 0 PROVE Granted(g, a) = 0
      <4>1. g = NoGrant
        BY <2>1, <3>1
      <4> HIDE DEF g
      <4> QED  BY <4>1, NothingGranted
    <3>2. ASSUME cap # 0 PROVE Granted(g, a) = IF a = at THEN count ELSE 0
      <4>1. g = made /\ AccountOf(made) = at /\ made.count = count
        BY <2>1, <2>4, <3>2
      <4> HIDE DEF made, g
      <4> QED  BY <4>1 DEF Granted
    <3> QED  BY <3>1, <3>2
  <2>6. g \in GrantRecords
    BY <2>1, <2>4 DEF GrantRecords
  <2>7. CASE issued + Batch >= cap
    <3>1. next.account[p] = at + 1 /\ next.issued[p] = 0
      BY <1>1, <1>3, <2>7 DEF Publish, Published, LastOfAccount
    <3>2. PublisherOK(next, p)
      <4> HIDE DEF next
      <4> QED  BY <1>1, <1>3, <2>3, <2>6, <3>1 DEF PublisherOK
    <3>3. Left(k, p, a) \in Nat /\ Left(next, p, a) = Left(k, p, a) - Granted(g, a)
      <4>1. cap # 0 => count = left
        BY <1>1, <1>3, <2>7
      <4>2. cap = 0 => issued = 0
        BY <1>1, <1>3
      <4> HIDE DEF next, g
      <4>3. CASE a < at
        BY <1>1, <1>3, <2>5, <3>1, <4>3 DEF Left
      <4>4. CASE a = at
        BY <1>1, <1>3, <2>5, <3>1, <4>1, <4>2, <4>4 DEF Left
      <4>5. CASE a > at
        BY <1>1, <1>3, <2>5, <3>1, <4>5 DEF Left
      <4> QED  BY <1>1, <4>3, <4>4, <4>5
    <3> QED  BY <2>2, <3>2, <3>3
  <2>8. CASE issued + Batch < cap
    <3>1. next.account[p] = at /\ next.issued[p] = issued + Batch
      BY <1>1, <1>3, <2>8 DEF Publish, Published, LastOfAccount
    <3>2. PublisherOK(next, p)
      <4> HIDE DEF next
      <4> QED  BY <1>1, <1>3, <2>3, <2>6, <2>8, <3>1 DEF PublisherOK
    <3>3. Left(k, p, a) \in Nat /\ Left(next, p, a) = Left(k, p, a) - Granted(g, a)
      <4>1. count = Batch /\ cap # 0
        BY <1>1, <1>3, <2>8
      <4> HIDE DEF next, g
      <4> QED  BY <1>1, <1>3, <2>5, <2>8, <3>1, <4>1 DEF Left
    <3> QED  BY <2>2, <3>2, <3>3
  <2>9. issued + Batch >= cap \/ issued + Batch < cap
    BY <1>1, <1>3
  <2> QED  BY <2>7, <2>8, <2>9, Zenon
<1>4. at > Pool \/ at <= Pool
  BY <1>1
<1> QED  BY <1>2, <1>3, <1>4, Zenon

-------------------------------------------------------------------------------
(* Accounts and what they hold.                                                  *)

\* An account is a port and a virtual channel or the pool; a beat belongs to one.
LEMMA AccountParts ==
  /\ \A pa \in Accounts : pa[1] \in Ports /\ pa[2] \in 0..Pool /\ pa = <<pa[1], pa[2]>>
  /\ \A p \in Ports, a \in 0..Pool : <<p, a>> \in Accounts
  /\ \A m \in Metas : AccountOf(m) \in 0..Pool
  /\ \A pa \in Accounts : CapacityOf(pa) \in Nat
  /\ Pool \in Nat /\ Stable \in Nat /\ Stable > 0
<1>1. Pool \in Nat /\ Stable \in Nat /\ Stable > 0
  BY CreditAssumption DEF Pool
<1>2. ASSUME NEW pa \in Accounts
      PROVE  pa[1] \in Ports /\ pa[2] \in 0..Pool /\ pa = <<pa[1], pa[2]>>
  BY DEF Accounts
<1>3. \A p \in Ports, a \in 0..Pool : <<p, a>> \in Accounts
  BY DEF Accounts
<1>4. \A m \in Metas : AccountOf(m) \in 0..Pool
  BY CreditAssumption DEF Metas, AccountOf, Pool
<1>5. \A pa \in Accounts : CapacityOf(pa) \in Nat
  BY <1>2, CreditAssumption DEF CapacityOf
<1> QED  BY <1>1, <1>2, <1>3, <1>4, <1>5

\* A grant gives a number of credits.
LEMMA GrantGives ==
  ASSUME NEW g \in GrantRecords, NEW a
  PROVE  Granted(g, a) \in Nat
<1>1. g.count \in Nat
  <2>1. CASE g = NoGrant
    BY <2>1 DEF NoGrant
  <2>2. CASE g \in [vc : 0..(VCs - 1), pool : BOOLEAN, count : 1..Batch]
    BY <2>2, CreditAssumption
  <2> QED  BY <2>1, <2>2 DEF GrantRecords
<1> QED  BY <1>1 DEF Granted

\* All five places of an account's credit hold a number of credits.
LEMMA PlacesOfCredit ==
  ASSUME LoopInv, NEW pa \in Accounts
  PROVE  /\ ledger.balance[pa] \in Nat /\ Granted(Bus[pa[1]], pa[2]) \in Nat
         /\ Stored(pa) \in Nat /\ Owed(pa) \in Nat /\ Unpublished(pa) \in Nat
         /\ Owed(pa) = CountIn(receiver.returns.queue[pa[1]], WordsOf(pa[2]))
         /\ Unpublished(pa) = Left(receiver.initial, pa[1], pa[2])
         /\ receiver.initial.grants[pa[1]] \in GrantRecords
         /\ receiver.returns.grants[pa[1]] \in GrantRecords
<1> DEFINE p == pa[1]
           a == pa[2]
           q == receiver.returns.queue[p]
<1>1. p \in Ports /\ a \in 0..Pool
  BY AccountParts
<1>2. ledger.balance[pa] \in Nat
  BY DEF LoopInv
<1>3. receiver.initial.grants[p] \in GrantRecords /\ receiver.returns.grants[p] \in GrantRecords
  BY <1>1 DEF LoopInv, ReceiverOK, PublisherOK, ReturnsOK
<1>4. Granted(Bus[p], a) \in Nat
  <2>1. Bus[p] \in GrantRecords
    BY <1>1, <1>3 DEF Bus, OnBus
  <2> QED  BY <2>1, GrantGives
<1>5. Stored(pa) \in Nat
  <2>1. receiver.fifo[pa] \in Buffers(WordsOf(a))
    BY DEF LoopInv, ReceiverOK
  <2> QED  BY <2>1, ContentsAreWords DEF Stored
<1>6. q \in Seq(Metas)
  BY <1>1 DEF LoopInv, ReceiverOK, ReturnsOK
<1>7. {i \in DOMAIN q : AccountOf(q[i]) = a} = Places(q, WordsOf(a))
  <2>1. \A i \in DOMAIN q : q[i] \in Metas
    <3>1. DOMAIN q = 1..Len(q)
      BY <1>6, LenProperties
    <3> QED  BY <1>6, <3>1, ElementOfSeq
  <2> QED  BY <2>1 DEF Places, WordsOf
<1>8. Owed(pa) = CountIn(q, WordsOf(a))
  BY <1>7 DEF Owed, CountIn
<1>9. CountIn(q, WordsOf(a)) \in Nat
  BY <1>6, PlacesFinite
<1>10. Unpublished(pa) = Left(receiver.initial, p, a)
  BY DEF Unpublished, Left, CapacityOf
<1>11. Left(receiver.initial, p, a) \in Nat
  BY <1>1, PublishPort DEF LoopInv, ReceiverOK
<1> QED  BY <1>2, <1>3, <1>4, <1>5, <1>8, <1>9, <1>10, <1>11

\* With credit in the balance the account's FIFO has a place, and nothing is refused.
LEMMA CreditHasRoom ==
  ASSUME LoopInv, NEW b \in Beats, Legal(b)
  PROVE  /\ Accepts(receiver, controller.signals, b)
         /\ Ready(receiver.fifo[<<b.port, AccountOf(b.meta)>>],
                  Capacity[b.port][AccountOf(b.meta)])
         /\ ledger.balance[<<b.port, AccountOf(b.meta)>>] > 0
<1> DEFINE a == AccountOf(b.meta)
           pa == <<b.port, a>>
           stored == Stored(pa)
<1>1. b.port \in Ports /\ a \in 0..Pool /\ pa \in Accounts /\ pa[1] = b.port /\ pa[2] = a
  BY AccountParts DEF Beats
<1>2. /\ BeatsEnabled(controller.signals) /\ b.port \in ledger.initialized
      /\ ledger.balance[pa] >= 1
  BY DEF Legal, MaySend
<1>3. b.port \in receiver.initial.done
  BY <1>1, <1>2 DEF LoopInv, OrderKept
<1>4. stored < CapacityOf(pa)
  <2> DEFINE x == ledger.balance[pa]
             y == Granted(Bus[pa[1]], pa[2])
             z == Owed(pa)
             u == Unpublished(pa)
             c == CapacityOf(pa)
  <2>1. x \in Nat /\ y \in Nat /\ stored \in Nat /\ z \in Nat /\ u \in Nat
    BY <1>1, PlacesOfCredit
  <2>2. x + y + stored + z + u = c
    BY <1>1 DEF LoopInv, CreditConserved
  <2>3. x >= 1 /\ c \in Nat
    BY <1>1, <1>2, AccountParts
  <2> HIDE DEF x, y, stored, z, u, c
  <2>4. stored < c
    BY <2>1, <2>2, <2>3
  <2> QED  BY <2>4 DEF c
<1>5. Ready(receiver.fifo[pa], Capacity[b.port][a])
  BY <1>1, <1>4 DEF Ready, Stored, CapacityOf
<1>6. ledger.balance[pa] > 0
  <2>1. ledger.balance[pa] \in Nat
    BY <1>1 DEF LoopInv
  <2> QED  BY <1>2, <2>1
<1> QED  BY <1>1, <1>2, <1>3, <1>5, <1>6 DEF Accepts, Diagnostic

\* The invariant holds what the run checks.
LEMMA LoopInvKeepsCredit == LoopInv => CreditKept
<1> SUFFICES ASSUME LoopInv PROVE CreditKept
  OBVIOUS
<1>1. NothingRefused
  BY CreditHasRoom DEF NothingRefused
<1>2. ASSUME NEW pa \in Accounts
      PROVE  ledger.balance[pa] \in 0..CapacityOf(pa) /\ Stored(pa) <= CapacityOf(pa)
  <2> DEFINE x == ledger.balance[pa]
             y == Granted(Bus[pa[1]], pa[2])
             stored == Stored(pa)
             z == Owed(pa)
             u == Unpublished(pa)
             c == CapacityOf(pa)
  <2>1. x \in Nat /\ y \in Nat /\ stored \in Nat /\ z \in Nat /\ u \in Nat
    BY PlacesOfCredit
  <2>2. x + y + stored + z + u = c
    BY DEF LoopInv, CreditConserved
  <2>3. c \in Nat
    BY AccountParts
  <2> HIDE DEF x, y, stored, z, u, c
  <2>4. x \in 0..c /\ stored <= c
    BY <2>1, <2>2, <2>3
  <2> QED  BY <2>4 DEF x, stored, c
<1>3. LoopTypeOK
  BY <1>2 DEF LoopTypeOK, LoopInv, ReceiverOK, ReturnsOK, PublisherOK
<1> QED  BY <1>1, <1>3 DEF CreditKept, LoopInv

-------------------------------------------------------------------------------
(* What an edge does to the credit of one account.                               *)

\* Published credit: a port's publisher moves on, or waits for the connection.
LEMMA PublisherEdge ==
  ASSUME LoopInv, NEW p \in Ports, NEW a \in 0..Pool,
         NEW next, next = Publish(receiver.initial, CreditConnected(controller.signals))
  PROVE  /\ PublisherOK(next, p)
         /\ p \in receiver.initial.done => p \in next.done
         /\ Left(receiver.initial, p, a) \in Nat /\ Granted(next.grants[p], a) \in Nat
         /\ Left(next, p, a) = Left(receiver.initial, p, a) - Granted(next.grants[p], a)
         /\ ~CreditConnected(controller.signals) => next.grants[p] = NoGrant /\ p \notin next.done
<1> DEFINE k == receiver.initial
<1>1. PublisherOK(k, p)
  BY DEF LoopInv, ReceiverOK
<1>2. CASE CreditConnected(controller.signals)
  <2>1. next = Publish(k, TRUE)
    BY <1>2 DEF Publish
  <2> HIDE DEF k
  <2>2. /\ PublisherOK(next, p)
        /\ p \in k.done => p \in next.done
        /\ Left(k, p, a) \in Nat
        /\ Left(next, p, a) = Left(k, p, a) - Granted(next.grants[p], a)
    BY <1>1, <2>1, PublishPort
  <2>3. Granted(next.grants[p], a) \in Nat
    BY <2>2, GrantGives DEF PublisherOK
  <2> QED  BY <1>2, <2>2, <2>3 DEF k
<1>3. CASE ~CreditConnected(controller.signals)
  <2>1. next = k
    BY <1>3 DEF Publish
  <2>2. Bus[p] = NoGrant /\ p \notin k.done
    BY <1>3 DEF LoopInv, BusIsLegal
  <2>3. k.grants[p] = NoGrant
    BY <2>2 DEF Bus, OnBus
  <2>4. Granted(next.grants[p], a) = 0
    BY <2>1, <2>3, NothingGranted
  <2>5. Left(k, p, a) \in Nat
    BY <1>1, PublishPort
  <2> HIDE DEF k
  <2> QED  BY <1>1, <1>3, <2>1, <2>2, <2>3, <2>4, <2>5 DEF k
<1> QED  BY <1>2, <1>3

\* The accounts retired at an edge, and their beats.
Leavers(accounts) == {pa \in accounts : MayRetire(receiver, pa)}
Retirees(accounts) == {Retired(receiver, pa) : pa \in Leavers(accounts)}

\* What is retired is one beat of the account's port and channel, for which the
\* return queue has a place.
LEMMA RetireesAre ==
  ASSUME LoopInv, NEW accounts \in AtMostOne(Accounts)
  PROVE  /\ Retirees(accounts) \in SUBSET BeatsOf(Ports) /\ Single(Retirees(accounts))
         /\ \A b \in Retirees(accounts) : ReturnReady(receiver.returns, b.port)
         /\ \A pa \in Accounts :
              /\ pa \in Leavers(accounts) => receiver.fifo[pa].visible # << >>
              /\ Enters(receiver.returns, pa[1], Retirees(accounts), WordsOf(pa[2]))
                   = IF pa \in Leavers(accounts) THEN 1 ELSE 0
<1>1. ASSUME NEW pa \in Leavers(accounts)
      PROVE  /\ pa \in Accounts /\ receiver.fifo[pa].visible # << >>
             /\ ReturnReady(receiver.returns, pa[1])
             /\ Retired(receiver, pa) \in BeatsOf(Ports)
             /\ Retired(receiver, pa).port = pa[1]
             /\ Retired(receiver, pa).meta \in WordsOf(pa[2])
  <2>1. pa \in Accounts /\ receiver.fifo[pa].visible # << >> /\ ReturnReady(receiver.returns, pa[1])
    BY DEF Leavers, MayRetire, Valid
  <2>2. receiver.fifo[pa].visible \in Seq(WordsOf(pa[2]))
    BY <2>1 DEF LoopInv, ReceiverOK, Buffers
  <2>3. Head(receiver.fifo[pa].visible) \in WordsOf(pa[2])
    BY <2>1, <2>2, HeadTailProperties
  <2>4. pa[1] \in Ports
    BY <2>1, AccountParts
  <2> QED  BY <2>1, <2>3, <2>4 DEF Retired, BeatsOf, WordsOf
<1>2. \A pa, pb \in Leavers(accounts) : pa = pb
  BY DEF Leavers, AtMostOne
<1>3. Retirees(accounts) \in SUBSET BeatsOf(Ports) /\ Single(Retirees(accounts))
  BY <1>1, <1>2 DEF Retirees, Single
<1>4. \A b \in Retirees(accounts) : ReturnReady(receiver.returns, b.port)
  BY <1>1 DEF Retirees
<1>5. ASSUME NEW pa \in Accounts
      PROVE  /\ pa \in Leavers(accounts) => receiver.fifo[pa].visible # << >>
             /\ Enters(receiver.returns, pa[1], Retirees(accounts), WordsOf(pa[2]))
                  = IF pa \in Leavers(accounts) THEN 1 ELSE 0
  <2>1. CASE pa \in Leavers(accounts)
    <3> DEFINE b == Retired(receiver, pa)
    <3>1. b \in Retirees(accounts) /\ b.port = pa[1] /\ b.meta \in WordsOf(pa[2])
          /\ ReturnReady(receiver.returns, pa[1])
      BY <1>1, <2>1 DEF Retirees
    <3> HIDE DEF b
    <3>2. b.meta \in In(receiver.returns, pa[1], Retirees(accounts))
      BY <3>1 DEF In
    <3> QED  BY <1>1, <2>1, <3>1, <3>2 DEF Enters
  <2>2. CASE pa \notin Leavers(accounts)
    <3>1. ASSUME NEW m \in WordsOf(pa[2]), m \in In(receiver.returns, pa[1], Retirees(accounts))
          PROVE  FALSE
      <4>1. PICK b \in Retirees(accounts) : b.port = pa[1] /\ b.meta = m
        BY <3>1 DEF In
      <4>2. PICK pb \in Leavers(accounts) : b = Retired(receiver, pb)
        BY DEF Retirees
      <4>3. pb \in Accounts /\ pb[1] = pa[1] /\ m \in WordsOf(pb[2])
        BY <1>1, <4>1, <4>2
      <4>4. pb[2] = pa[2]
        BY <4>3 DEF WordsOf
      <4>5. pb = pa
        BY <4>3, <4>4, AccountParts
      <4> QED  BY <2>2, <4>2, <4>5
    <3> QED  BY <2>2, <3>1 DEF Enters
  <2> QED  BY <2>1, <2>2
<1> QED  BY <1>3, <1>4, <1>5

\* Owed credit: what the queue grants leaves it, what is retired enters.
LEMMA OwedEdge ==
  ASSUME LoopInv, NEW accounts \in AtMostOne(Accounts), NEW pa \in Accounts, NEW enabled,
         NEW next, next = Return(receiver.returns, Retirees(accounts), enabled)
  PROVE  /\ ReturnsOK(next) /\ Granted(next.grants[pa[1]], pa[2]) \in Nat
         /\ CountIn(next.queue[pa[1]], WordsOf(pa[2]))
              = (CountIn(receiver.returns.queue[pa[1]], WordsOf(pa[2]))
                  - Granted(next.grants[pa[1]], pa[2]))
                + (IF pa \in Leavers(accounts) THEN 1 ELSE 0)
         /\ pa[1] \notin enabled => next.grants[pa[1]] = NoGrant
<1> DEFINE p == pa[1]
           a == pa[2]
           r == receiver.returns
           out == Retirees(accounts)
           M == WordsOf(a)
           g == next.grants[p]
           in == IF pa \in Leavers(accounts) THEN 1 ELSE 0
<1>1. /\ p \in Ports /\ ReturnsOK(r) /\ out \in SUBSET BeatsOf(Ports) /\ Single(out)
      /\ next = Return(r, out, enabled)
  BY AccountParts, RetireesAre DEF LoopInv, ReceiverOK
<1>2. Enters(r, p, out, M) = in
  BY RetireesAre
<1>3. p \notin enabled => g = NoGrant
  BY <1>1 DEF Return
<1>4. MetaIn(g) \in Metas /\ g # NoGrant => (MetaIn(g) \in M <=> AccountOf(g) = a)
  BY DEF WordsOf, MetaIn, AccountOf
<1> HIDE DEF p, r, out, M, g, in, a
<1>5. ReturnsOK(next)
  BY <1>1, ReturnKeeps
<1>6. g \in GrantRecords
  BY <1>1, <1>5 DEF ReturnsOK, g
<1>7. Granted(g, a) \in Nat
  BY <1>6, GrantGives
<1>8. /\ g # NoGrant => MetaIn(g) \in Metas
      /\ CountIn(next.queue[p], M)
           = (CountIn(r.queue[p], M) - (IF MetaIn(g) \in M THEN g.count ELSE 0)) + Enters(r, p, out, M)
  BY <1>1, ReturnCounts DEF g
<1>9. (IF MetaIn(g) \in M THEN g.count ELSE 0) = Granted(g, a)
  <2>1. CASE g = NoGrant
    BY <2>1 DEF Granted, NoGrant
  <2>2. CASE g # NoGrant
    BY <1>4, <1>8, <2>2 DEF Granted
  <2> QED  BY <2>1, <2>2
<1>10. CountIn(next.queue[p], M) = (CountIn(r.queue[p], M) - Granted(g, a)) + in
  BY <1>2, <1>8, <1>9
<1> QED  BY <1>3, <1>5, <1>7, <1>10 DEF p, r, M, g, in, a

Spent(beats, pa) == IF \E b \in beats : b.port = pa[1] /\ AccountOf(b.meta) = pa[2] THEN 1 ELSE 0

\* Occupied storage: what is retired leaves it, and each beat of the sender enters.
LEMMA StoredEdge ==
  ASSUME LoopInv, NEW beats \in AtMostOne(Beats), \A b \in beats : Legal(b),
         NEW accounts \in AtMostOne(Accounts), NEW pa \in Accounts,
         NEW next, next = ReceiveStep(receiver, controller.signals, beats, accounts)
  PROVE  /\ next.fifo[pa] \in Buffers(WordsOf(pa[2]))
         /\ Count(next.fifo[pa])
              = (Stored(pa) - (IF pa \in Leavers(accounts) THEN 1 ELSE 0)) + Spent(beats, pa)
         /\ Spent(beats, pa) \in Nat /\ Spent(beats, pa) <= ledger.balance[pa]
<1> DEFINE a == pa[2]
           W == WordsOf(a)
           f == receiver.fifo[pa]
           cap == Capacity[pa[1]][a]
           goes == pa \in Leavers(accounts)
           word == IF \E b \in beats : <<b.port, AccountOf(b.meta)>> = pa
                   THEN <<(CHOOSE b \in beats : TRUE).meta>> ELSE << >>
<1>1. \A b \in beats : b \in Beats /\ Accepts(receiver, controller.signals, b)
  BY CreditHasRoom DEF AtMostOne
<1>2. {b \in beats : Accepts(receiver, controller.signals, b)} = beats
  BY <1>1
<1>3. next.fifo[pa] = Step(f, cap, word, goes)
  BY <1>2 DEF ReceiveStep, Leavers
<1>4. f \in Buffers(W)
  BY DEF LoopInv, ReceiverOK
<1>5. goes \in BOOLEAN /\ (Pops(f, goes) <=> goes)
  BY RetireesAre DEF Pops, Valid
<1>6. ASSUME NEW b \in beats, b.port = pa[1], AccountOf(b.meta) = a
      PROVE  /\ word = <<b.meta>> /\ b.meta \in W /\ Ready(f, cap) /\ Spent(beats, pa) = 1
             /\ ledger.balance[pa] > 0
  <2>1. <<b.port, AccountOf(b.meta)>> = pa
    BY <1>6, AccountParts
  <2>2. beats = {b}
    BY DEF AtMostOne
  <2>3. (CHOOSE c \in beats : TRUE) = b
    BY <2>2
  <2>4. b.meta \in W
    BY <1>1, <1>6 DEF Beats, WordsOf
  <2>5. Ready(f, cap) /\ ledger.balance[pa] > 0
    BY <1>1, <1>6, <2>1, CreditHasRoom
  <2> QED  BY <1>6, <2>1, <2>3, <2>4, <2>5 DEF Spent
<1>7. ASSUME ~ \E b \in beats : b.port = pa[1] /\ AccountOf(b.meta) = a
      PROVE  word = << >> /\ Spent(beats, pa) = 0
  <2>1. \A b \in beats : <<b.port, AccountOf(b.meta)>> = pa => b.port = pa[1] /\ AccountOf(b.meta) = a
    OBVIOUS
  <2> QED  BY <1>7, <2>1 DEF Spent
<1> HIDE DEF word, f, cap, goes, W
<1>8. word \in Offers(W) /\ Len(Taken(f, cap, word)) = Spent(beats, pa)
  <2>1. CASE \E b \in beats : b.port = pa[1] /\ AccountOf(b.meta) = a
    <3>1. PICK b \in beats : b.port = pa[1] /\ AccountOf(b.meta) = a
      BY <2>1
    <3>2. word = <<b.meta>> /\ b.meta \in W /\ Ready(f, cap) /\ Spent(beats, pa) = 1
      BY <1>6, <3>1
    <3>3. Len(<<b.meta>>) = 1
      OBVIOUS
    <3> QED  BY <3>2, <3>3 DEF Offers, Taken
  <2>2. CASE ~ \E b \in beats : b.port = pa[1] /\ AccountOf(b.meta) = a
    <3>1. word = << >> /\ Spent(beats, pa) = 0
      BY <1>7, <2>2
    <3>2. Len(<< >>) = 0
      BY EmptySeq
    <3> QED  BY <3>1, <3>2 DEF Offers, Taken
  <2> QED  BY <2>1, <2>2
<1>9. Step(f, cap, word, goes) \in Buffers(W)
  BY <1>4, <1>5, <1>8, StepOfFifo
<1>10. Count(Step(f, cap, word, goes))
         = (Count(f) - (IF Pops(f, goes) THEN 1 ELSE 0)) + Len(Taken(f, cap, word))
  BY <1>4, <1>5, <1>8, StepCounts
<1>11. Count(Step(f, cap, word, goes)) = (Count(f) - (IF goes THEN 1 ELSE 0)) + Spent(beats, pa)
  BY <1>5, <1>8, <1>10
<1>12. Spent(beats, pa) \in Nat /\ Spent(beats, pa) <= ledger.balance[pa]
  <2>1. ledger.balance[pa] \in Nat
    BY DEF LoopInv
  <2>2. CASE \E b \in beats : b.port = pa[1] /\ AccountOf(b.meta) = a
    <3>1. PICK b \in beats : b.port = pa[1] /\ AccountOf(b.meta) = a
      BY <2>2
    <3>2. Spent(beats, pa) = 1 /\ ledger.balance[pa] > 0
      BY <1>6, <3>1
    <3> QED  BY <2>1, <3>2
  <2>3. CASE ~ \E b \in beats : b.port = pa[1] /\ AccountOf(b.meta) = a
    BY <1>7, <2>1, <2>3
  <2> QED  BY <2>2, <2>3
<1> QED  BY <1>3, <1>9, <1>11, <1>12 DEF W, f, goes, Stored

-------------------------------------------------------------------------------
(* An edge keeps the invariant.                                                  *)

\* The levels of the connection only rise.
LEMMA ControllerEdge ==
  ASSUME ControllerOK(controller), NEW orig_ready \in BOOLEAN, NEW comp_ready \in BOOLEAN,
         NEW next, next = ConnectionStep(controller, orig_ready, comp_ready)
  PROVE  /\ ControllerOK(next)
         /\ CreditConnected(controller.signals) => CreditConnected(next.signals)
<1> DEFINE k == controller
           c == Handshake(k.signals, k.waits, orig_ready, comp_ready)
           d == Disconnected
<1>1. /\ k = [signals |-> k.signals, running |-> k.running, low |-> k.low, waits |-> k.waits]
      /\ k.signals \in SignalLevels /\ k.running \in BOOLEAN /\ k.low \in Nat /\ k.waits \in BOOLEAN
  BY DEF ControllerOK
<1>2. c \in SignalLevels /\ d \in SignalLevels
  BY <1>1 DEF SignalLevels, Handshake, OrigConnected, Disconnected
<1>3. CreditConnected(k.signals) => CreditConnected(c)
  BY <1>1 DEF SignalLevels, Handshake, CreditConnected, OrigConnected, CompConnected
<1>4. ~ CreditConnected(d)
  BY DEF Disconnected, CreditConnected, OrigConnected, CompConnected
<1>5. next = [signals |-> IF k.running THEN c ELSE d, running |-> TRUE, low |-> 0, waits |-> k.waits]
  <2> HIDE DEF c, d
  <2> QED  BY <1>1 DEF ConnectionStep, c, d
<1>6. ~k.running => k.signals = d
  BY DEF ControllerOK
<1> HIDE DEF c, d
<1>7. next.signals = IF k.running THEN c ELSE d
  BY <1>5
<1>8. ControllerOK(next)
  BY <1>1, <1>2, <1>5 DEF ControllerOK
<1> QED  BY <1>1, <1>3, <1>4, <1>6, <1>7, <1>8

\* Five places change, and their sum does not.
LEMMA AccountConserved ==
  ASSUME LoopInv, NEW orig_ready \in BOOLEAN, NEW comp_ready \in BOOLEAN,
         NEW beats \in AtMostOne(Beats), NEW accounts \in AtMostOne(Accounts),
         LoopEdge(orig_ready, comp_ready, beats, accounts), NEW pa \in Accounts,
         Granted(Bus'[pa[1]], pa[2])
           = Granted(receiver'.initial.grants[pa[1]], pa[2])
             + Granted(receiver'.returns.grants[pa[1]], pa[2])
  PROVE  /\ ledger'.balance[pa] \in Nat
         /\ ledger'.balance[pa] + Granted(Bus'[pa[1]], pa[2]) + Stored(pa)' + Owed(pa)' + Unpublished(pa)'
              = CapacityOf(pa)
         /\ receiver'.fifo[pa] \in Buffers(WordsOf(pa[2]))
<1> DEFINE p == pa[1]
           a == pa[2]
           M == WordsOf(a)
           enabled == IF CreditConnected(controller.signals) THEN receiver.initial.done ELSE {}
           balance == ledger.balance[pa]
           granted == Granted(Bus[p], a)
           stored == Stored(pa)
           owed == Owed(pa)
           left == Unpublished(pa)
           spent == Spent(beats, pa)
           out == IF pa \in Leavers(accounts) THEN 1 ELSE 0
           fresh == Granted(receiver'.initial.grants[p], a)
           again == Granted(receiver'.returns.grants[p], a)
           balance2 == ledger'.balance[pa]
           stored2 == Stored(pa)'
           owed2 == Owed(pa)'
           left2 == Unpublished(pa)'
<1>1. p \in Ports /\ a \in 0..Pool
  BY AccountParts
<1>2. /\ balance \in Nat /\ granted \in Nat /\ stored \in Nat /\ owed \in Nat /\ left \in Nat
      /\ owed = CountIn(receiver.returns.queue[p], M) /\ left = Left(receiver.initial, p, a)
  BY PlacesOfCredit
<1>3. balance + granted + stored + owed + left = CapacityOf(pa)
  BY DEF LoopInv, CreditConserved
<1>4. /\ receiver' = ReceiveStep(receiver, controller.signals, beats, accounts)
      /\ ledger' = LedgerStep(ledger, Bus, beats, receiver.initial.done)
      /\ \A b \in beats : Legal(b)
  BY DEF LoopEdge
<1>5. /\ receiver'.initial = Publish(receiver.initial, CreditConnected(controller.signals))
      /\ receiver'.returns = Return(receiver.returns, Retirees(accounts), enabled)
  BY <1>4 DEF ReceiveStep, Retirees, Leavers
<1>6. /\ receiver'.fifo[pa] \in Buffers(M) /\ stored2 = (stored - out) + spent
      /\ spent \in Nat /\ spent <= balance
  BY <1>4, StoredEdge DEF Stored
<1>7. balance2 = balance + (granted - spent)
  BY <1>4 DEF LedgerStep, Spent
<1>8. left2 = left - fresh /\ fresh \in Nat
  <2>1. Left(receiver'.initial, p, a) = Left(receiver.initial, p, a) - fresh /\ fresh \in Nat
    BY <1>1, <1>5, PublisherEdge
  <2>2. left2 = Left(receiver'.initial, p, a)
    BY DEF Unpublished, Left, CapacityOf
  <2> QED  BY <1>2, <2>1, <2>2
<1>9. owed2 = (owed - again) + out /\ again \in Nat
  <2>1. /\ ReturnsOK(receiver'.returns) /\ again \in Nat
        /\ CountIn(receiver'.returns.queue[p], M)
             = (CountIn(receiver.returns.queue[p], M) - again) + out
    BY <1>5, OwedEdge
  <2> DEFINE q == receiver'.returns.queue[p]
  <2>2. q \in Seq(Metas)
    BY <1>1, <2>1 DEF ReturnsOK
  <2>3. {i \in DOMAIN q : AccountOf(q[i]) = a} = Places(q, M)
    <3>1. \A i \in DOMAIN q : q[i] \in Metas
      <4>1. DOMAIN q = 1..Len(q)
        BY <2>2, LenProperties
      <4> QED  BY <2>2, <4>1, ElementOfSeq
    <3> QED  BY <3>1 DEF Places, WordsOf
  <2>4. owed2 = CountIn(q, M)
    BY <2>3 DEF Owed, CountIn
  <2> QED  BY <1>2, <2>1, <2>4
<1>10. out \in Nat
  OBVIOUS
<1> HIDE DEF balance, granted, stored, owed, left, spent, out, fresh, again, balance2, stored2, owed2, left2
<1>11. balance2 \in Nat
  BY <1>2, <1>6, <1>7
<1>12. balance2 + (fresh + again) + stored2 + owed2 + left2 = CapacityOf(pa)
  BY <1>2, <1>3, <1>6, <1>7, <1>8, <1>9, <1>10
<1>13. Granted(Bus'[p], a) = fresh + again
  BY DEF fresh, again
<1> QED  BY <1>6, <1>11, <1>12, <1>13 DEF balance2, stored2, owed2, left2

\* An edge keeps the whole invariant.
LEMMA EdgeKeepsLoopInv ==
  ASSUME LoopInv, NEW orig_ready \in BOOLEAN, NEW comp_ready \in BOOLEAN,
         NEW beats \in AtMostOne(Beats), NEW accounts \in AtMostOne(Accounts),
         LoopEdge(orig_ready, comp_ready, beats, accounts)
  PROVE  LoopInv'
<1> DEFINE connected == CreditConnected(controller.signals)
           enabled == IF connected THEN receiver.initial.done ELSE {}
<1>1. /\ controller' = ConnectionStep(controller, orig_ready, comp_ready)
      /\ receiver' = ReceiveStep(receiver, controller.signals, beats, accounts)
      /\ ledger' = LedgerStep(ledger, Bus, beats, receiver.initial.done)
  BY DEF LoopEdge
<1>2. ControllerOK(controller') /\ (connected => CreditConnected(controller'.signals))
  BY <1>1, ControllerEdge DEF LoopInv
<1>3. /\ receiver'.initial = Publish(receiver.initial, connected)
      /\ receiver'.returns = Return(receiver.returns, Retirees(accounts), enabled)
  BY <1>1 DEF ReceiveStep, Retirees, Leavers
<1>4. ASSUME NEW p \in Ports
      PROVE  /\ PublisherOK(receiver'.initial, p)
             /\ p \in receiver.initial.done => p \in receiver'.initial.done
             /\ ~connected => receiver'.initial.grants[p] = NoGrant /\ p \notin receiver'.initial.done
             /\ ReturnsOK(receiver'.returns)
             /\ receiver'.returns.grants[p] # NoGrant =>
                  connected /\ p \in receiver.initial.done /\ p \in receiver'.initial.done
             /\ receiver'.initial.grants[p] = NoGrant \/ receiver'.returns.grants[p] = NoGrant
  <2>1. 0 \in 0..Pool
    BY AccountParts
  <2> DEFINE pa == <<p, 0>>
  <2>2. pa \in Accounts /\ pa[1] = p
    BY <2>1, AccountParts
  <2>3. /\ PublisherOK(receiver'.initial, p)
        /\ p \in receiver.initial.done => p \in receiver'.initial.done
        /\ ~connected => receiver'.initial.grants[p] = NoGrant /\ p \notin receiver'.initial.done
    BY <1>3, <2>1, PublisherEdge
  <2> HIDE DEF pa
  <2>4. ReturnsOK(receiver'.returns) /\ (p \notin enabled => receiver'.returns.grants[p] = NoGrant)
    BY <1>3, <2>2, OwedEdge
  <2> QED  BY <2>3, <2>4 DEF PublisherOK
<1>5. ReturnsOK(receiver'.returns)
  <2>1. receiver.returns.queue \in [Ports -> Seq(Metas)] /\ ReturnsOK(receiver.returns)
    BY DEF LoopInv, ReceiverOK, ReturnsOK
  <2>2. Retirees(accounts) \in SUBSET BeatsOf(Ports) /\ Single(Retirees(accounts))
    BY RetireesAre
  <2> QED  BY <1>3, <2>1, <2>2, ReturnKeeps
<1>6. BusIsLegal'
  <2>1. \A p \in Ports : Bus'[p] # NoGrant \/ p \in receiver'.initial.done => connected
    BY <1>4 DEF Bus, OnBus
  <2> QED  BY <1>2, <1>4, <2>1 DEF BusIsLegal
<1>7. ASSUME NEW pa \in Accounts
      PROVE  /\ ledger'.balance[pa] \in Nat
             /\ ledger'.balance[pa] + Granted(Bus'[pa[1]], pa[2]) + Stored(pa)' + Owed(pa)' + Unpublished(pa)'
                  = CapacityOf(pa)
             /\ receiver'.fifo[pa] \in Buffers(WordsOf(pa[2]))
  <2> DEFINE p == pa[1]
             a == pa[2]
             fresh == Granted(receiver'.initial.grants[p], a)
             again == Granted(receiver'.returns.grants[p], a)
  <2>1. p \in Ports
    BY AccountParts
  <2>2. receiver'.initial.grants[p] \in GrantRecords /\ receiver'.returns.grants[p] \in GrantRecords
    BY <1>4, <2>1 DEF PublisherOK, ReturnsOK
  <2>3. fresh \in Nat /\ again \in Nat
    BY <2>2, GrantGives
  <2>4. Granted(Bus'[p], a) = fresh + again
    <3>1. Bus'[p] = IF receiver'.initial.grants[p] # NoGrant THEN receiver'.initial.grants[p]
                    ELSE receiver'.returns.grants[p]
      BY <2>1 DEF Bus, OnBus
    <3>2. CASE receiver'.initial.grants[p] # NoGrant
      <4>1. receiver'.returns.grants[p] = NoGrant
        BY <1>4, <2>1, <3>2
      <4>2. again = 0 /\ Granted(Bus'[p], a) = fresh
        BY <3>1, <3>2, <4>1, NothingGranted
      <4> QED  BY <2>3, <4>2
    <3>3. CASE receiver'.initial.grants[p] = NoGrant
      <4>1. fresh = 0 /\ Granted(Bus'[p], a) = again
        BY <3>1, <3>3, NothingGranted
      <4> QED  BY <2>3, <4>1
    <3> QED  BY <3>2, <3>3
  <2> QED  BY <2>4, AccountConserved
<1>8. ReceiverOK(receiver')
  BY <1>4, <1>5, <1>7 DEF ReceiverOK
<1>9. ASSUME NEW p \in Ports PROVE OrderKept(ledger', receiver', p)
  <2>1. OrderKept(ledger, receiver, p) /\ Stable \in Nat /\ Stable > 0
    BY AccountParts DEF LoopInv
  <2>2. /\ ledger'.streak[p] = IF p \in ledger.initialized THEN ledger.streak[p]
                               ELSE IF p \in receiver.initial.done THEN ledger.streak[p] + 1 ELSE 0
        /\ p \in ledger'.initialized <=> p \in ledger.initialized \/ ledger'.streak[p] >= Stable
    BY <1>1 DEF LedgerStep, Confirm
  <2> QED  BY <1>4, <2>1, <2>2 DEF OrderKept
<1>10. (\A pa \in Accounts : ledger.balance[pa] \in Nat)' /\ CreditConserved'
  BY <1>7 DEF CreditConserved
<1> QED  BY <1>2, <1>6, <1>8, <1>9, <1>10 DEF LoopInv

\* After a reset all credit is still to be published.
LEMMA ClearedLoop ==
  ControllerOK(controller) /\ ledger = LedgerReset /\ receiver = ChannelReset => LoopInv
<1> SUFFICES ASSUME ControllerOK(controller), ledger = LedgerReset, receiver = ChannelReset
             PROVE  LoopInv
  OBVIOUS
<1>1. ReturnsOK(receiver.returns)
  <2>1. receiver.returns = ReturnsReset
    BY DEF ChannelReset
  <2> QED  BY <2>1, ResetReturns
<1>2. ASSUME NEW p \in Ports
      PROVE  /\ receiver.initial.account[p] = 0 /\ receiver.initial.issued[p] = 0
             /\ receiver.initial.grants[p] = NoGrant /\ receiver.initial.done = {}
             /\ receiver.returns.grants[p] = NoGrant /\ receiver.returns.queue[p] = << >>
             /\ ledger.streak[p] = 0 /\ ledger.initialized = {}
  BY DEF ChannelReset, PublisherReset, ReturnsReset, LedgerReset
<1>3. ASSUME NEW p \in Ports PROVE PublisherOK(receiver.initial, p)
  BY <1>2, AccountParts DEF PublisherOK, GrantRecords
<1>4. ASSUME NEW pa \in Accounts PROVE receiver.fifo[pa] = Empty /\ ledger.balance[pa] = 0
  BY DEF ChannelReset, LedgerReset
<1>5. \A W : Empty \in Buffers(W) /\ Count(Empty) = 0
  <2> TAKE W
  <2>1. << >> \in Seq(W) /\ Len(<< >>) = 0
    BY EmptySeq
  <2> QED  BY <2>1 DEF Empty, Buffers, Offers, Count
<1>6. ReceiverOK(receiver)
  BY <1>1, <1>3, <1>4, <1>5 DEF ReceiverOK
<1>7. \A p \in Ports : OrderKept(ledger, receiver, p)
  BY <1>2, AccountParts DEF OrderKept
<1>8. \A p \in Ports : Bus[p] = NoGrant
  BY <1>2 DEF Bus, OnBus
<1>9. BusIsLegal
  BY <1>2, <1>8 DEF BusIsLegal
<1>10. ASSUME NEW pa \in Accounts
       PROVE  ledger.balance[pa] + Granted(Bus[pa[1]], pa[2]) + Stored(pa) + Owed(pa) + Unpublished(pa)
                = CapacityOf(pa)
  <2>1. pa[1] \in Ports /\ pa[2] \in 0..Pool /\ CapacityOf(pa) \in Nat /\ Pool \in Nat
    BY AccountParts
  <2>2. Granted(Bus[pa[1]], pa[2]) = 0
    BY <1>8, <2>1, NothingGranted
  <2>3. ledger.balance[pa] = 0 /\ Stored(pa) = 0
    BY <1>4, <1>5 DEF Stored
  <2>4. Owed(pa) = 0
    <3>1. {i \in DOMAIN receiver.returns.queue[pa[1]] :
             AccountOf(receiver.returns.queue[pa[1]][i]) = pa[2]} = {}
      BY <1>2, <2>1
    <3> QED  BY <3>1, FS_EmptySet DEF Owed
  <2>5. Unpublished(pa) = CapacityOf(pa)
    BY <1>2, <2>1 DEF Unpublished
  <2> QED  BY <2>1, <2>2, <2>3, <2>4, <2>5
<1>11. \A pa \in Accounts : ledger.balance[pa] \in Nat
  BY <1>4
<1> QED  BY <1>6, <1>7, <1>9, <1>10, <1>11 DEF LoopInv, CreditConserved

\* The loop starts as after a reset.
LEMMA InitLoopInv == LoopInit => LoopInv
<1> SUFFICES ASSUME LoopInit PROVE LoopInv
  OBVIOUS
<1>1. ControllerOK(controller)
  <2>1. Disconnected \in SignalLevels
    BY DEF SignalLevels, Disconnected
  <2>2. controller \in [signals : {Disconnected}, running : {FALSE}, low : {0}, waits : CompleterModes]
    BY DEF LoopInit, ControllerInit
  <2>3. controller.waits \in BOOLEAN
    BY <2>2, ConnectionAssumption
  <2>4. /\ controller = [signals |-> controller.signals, running |-> controller.running,
                         low |-> controller.low, waits |-> controller.waits]
        /\ controller.signals = Disconnected /\ controller.running = FALSE /\ controller.low = 0
    <3> HIDE DEF Disconnected
    <3> QED  BY <2>2
  <2>5. controller.signals \in SignalLevels /\ controller.running \in BOOLEAN /\ controller.low \in Nat
    <3>1. FALSE \in BOOLEAN /\ 0 \in Nat
      OBVIOUS
    <3> QED  BY <2>1, <2>4, <3>1, Zenon
  <2> QED  BY <2>3, <2>4, <2>5, Zenon DEF ControllerOK
<1> QED  BY <1>1, ClearedLoop DEF LoopInit

\* Every step, a reset too, keeps the invariant.
LEMMA NextKeepsLoopInv == LoopInv /\ [LoopNext]_loopVars => LoopInv'
<1> SUFFICES ASSUME LoopInv, [LoopNext]_loopVars PROVE LoopInv'
  OBVIOUS
<1>1. CASE ResetEdge
  <2>1. controller \in [signals : SignalLevels, running : BOOLEAN, low : Nat, waits : BOOLEAN]
    BY DEF LoopInv, ControllerOK
  <2>2. Disconnected \in SignalLevels
    BY DEF Disconnected, SignalLevels
  <2>3. (IF controller.low < MinReset THEN controller.low + 1 ELSE controller.low) \in Nat
    BY <2>1, ConnectionAssumption
  <2>4. controller' = [signals |-> Disconnected, running |-> FALSE,
                       low |-> IF controller.low < MinReset THEN controller.low + 1 ELSE controller.low,
                       waits |-> controller.waits]
    <3> DEFINE d == Disconnected
    <3> HIDE DEF d
    <3>1. controller' = [controller EXCEPT !.signals = d, !.running = FALSE,
                           !.low = IF controller.low < MinReset THEN controller.low + 1
                                   ELSE controller.low]
      BY <1>1 DEF ResetEdge, HoldReset, d
    <3> QED  BY <2>1, <3>1 DEF d
  <2>5. ControllerOK(controller')
    BY <2>1, <2>2, <2>3, <2>4 DEF ControllerOK
  <2>6. ControllerOK(controller)' /\ (ledger = LedgerReset)' /\ (receiver = ChannelReset)'
    BY <1>1, <2>5 DEF ResetEdge, ControllerOK
  <2> QED  BY <2>6, ClearedLoop, PTL
<1>2. ASSUME NEW orig_ready \in BOOLEAN, NEW comp_ready \in BOOLEAN,
             NEW beats \in AtMostOne(Beats), NEW accounts \in AtMostOne(Accounts),
             LoopEdge(orig_ready, comp_ready, beats, accounts)
      PROVE  LoopInv'
  BY <1>2, EdgeKeepsLoopInv
<1>3. CASE UNCHANGED loopVars
  BY <1>3 DEF loopVars, LoopInv, ControllerOK, ReceiverOK, OrderKept, CreditConserved, BusIsLegal, Bus,
              Stored, Owed, Unpublished, CapacityOf, PublisherOK
<1>4. Readiness \subseteq BOOLEAN
  BY DEF Readiness
<1> QED  BY <1>1, <1>2, <1>3, <1>4 DEF LoopNext, AnyEdge

\* The invariant holds throughout.
LEMMA LoopInvariance == LoopSpec => []LoopInv
BY InitLoopInv, NextKeepsLoopInv, PTL DEF LoopSpec

\* In every closed loop of a sender, a connection and a receive channel the storage
\* of each account is, to the last credit, promised, under way, occupied or owed;
\* no legal beat is refused, and no credit comes before its connection, nor twice
\* at an edge.
THEOREM LoopKeepsCredit == LoopSpec => []CreditKept
BY LoopInvariance, LoopInvKeepsCredit, PTL

-------------------------------------------------------------------------------
(* The circuits.                                                                 *)

\* A counter of credits holds the numbers below a power of two.
LEMMA CounterRange ==
  /\ 2^CreditWidth \in Nat /\ 2^CreditWidth > 0 /\ 2^(CreditWidth + 1) = 2 * 2^CreditWidth
  /\ Batch < 2^CreditWidth
<1> DEFINE Doubles(w) == 2^w \in Nat /\ 2^w > 0 /\ 2^(w + 1) = 2 * 2^w
<1>1. Doubles(3) /\ Doubles(4) /\ Doubles(5) /\ Doubles(6) /\ Doubles(7) /\ Doubles(8)
      /\ Doubles(9)
  OBVIOUS
<1>2. Doubles(10) /\ Doubles(11) /\ Doubles(12) /\ Doubles(13) /\ Doubles(14) /\ Doubles(15)
      /\ Doubles(16)
  OBVIOUS
<1>3. CreditWidth \in 3..16
  BY HardwareAssumption
<1>4. CreditWidth \in {3, 4, 5, 6, 7, 8, 9, 10, 11, 12, 13, 14, 15, 16}
  BY <1>3
<1> HIDE DEF Doubles
<1>5. Doubles(CreditWidth)
  BY <1>1, <1>2, <1>4
<1> QED  BY <1>5, HardwareAssumption DEF Doubles

\* Both sides raise the levels of the reference.
LEMMA SidesFollow == ControllerOK(controller) => SidesInStep
<1> SUFFICES ASSUME ControllerOK(controller) PROVE SidesInStep
  OBVIOUS
<1> DEFINE k == controller
           orig == OrigSide(k)
           comp == CompSide(k)
           c == k.signals
<1>1. /\ k.running \in BOOLEAN /\ k.waits \in BOOLEAN
      /\ c.orig_req \in BOOLEAN /\ c.comp_ack \in BOOLEAN
      /\ c.comp_req \in BOOLEAN /\ c.orig_ack \in BOOLEAN
  BY DEF ControllerOK, SignalLevels
<1>2. ~k.running => /\ c.orig_req = FALSE /\ c.comp_ack = FALSE
                    /\ c.comp_req = FALSE /\ c.orig_ack = FALSE
  BY DEF ControllerOK, Disconnected
<1>3. TxConnected(orig, comp) = OrigConnected(c) /\ TxConnected(comp, orig) = CompConnected(c)
  BY Zenon DEF TxConnected, OrigSide, CompSide, OrigConnected, CompConnected
<1>4. ASSUME NEW orig_ready \in BOOLEAN, NEW comp_ready \in BOOLEAN
      PROVE  LET next == ConnectionStep(k, orig_ready, comp_ready)
             IN  /\ HwSide(orig, comp, FALSE, orig_ready) = OrigSide(next)
                 /\ HwSide(comp, orig, k.waits, comp_ready) = CompSide(next)
  <2> DEFINE next == ConnectionStep(k, orig_ready, comp_ready)
             h == Handshake(c, k.waits, orig_ready, comp_ready)
             d == Disconnected
             levels == IF k.running THEN h ELSE d
             a == HwSide(orig, comp, FALSE, orig_ready)
             b == HwSide(comp, orig, k.waits, comp_ready)
  <2>1. next = [signals |-> levels, running |-> TRUE, low |-> 0, waits |-> k.waits]
    <3>1. k = [signals |-> k.signals, running |-> k.running, low |-> k.low, waits |-> k.waits]
      BY DEF ControllerOK
    <3>2. ConnectionStep(k, orig_ready, comp_ready) = [k EXCEPT !.signals = levels, !.running = TRUE, !.low = 0]
      BY DEF ConnectionStep
    <3> HIDE DEF levels
    <3> QED  BY <3>1, <3>2
  <2>2. /\ OrigSide(next) = [active |-> TRUE, req |-> levels.orig_req, ack |-> levels.orig_ack]
        /\ CompSide(next) = [active |-> TRUE, req |-> levels.comp_req, ack |-> levels.comp_ack]
    <3> HIDE DEF levels, next
    <3> QED  BY <2>1 DEF OrigSide, CompSide
  <2>3. /\ a = [active |-> TRUE, req |-> a.req, ack |-> a.ack]
        /\ b = [active |-> TRUE, req |-> b.req, ack |-> b.ack]
    BY DEF HwSide
  <2>4. CASE k.running
    <3>1. /\ a.req = (c.orig_req \/ orig_ready) /\ a.ack = (c.orig_ack \/ (orig_ready /\ c.comp_req))
          /\ b.req = (c.comp_req \/ (comp_ready /\ (k.waits => OrigConnected(c))))
          /\ b.ack = (c.comp_ack \/ (comp_ready /\ c.orig_req))
      BY <1>1, <2>4 DEF HwSide, OrigSide, CompSide, RxConnected, OrigConnected
    <3>2. /\ levels.orig_req = (c.orig_req \/ orig_ready)
          /\ levels.orig_ack = (c.orig_ack \/ (orig_ready /\ c.comp_req))
          /\ levels.comp_req = (c.comp_req \/ (comp_ready /\ (k.waits => OrigConnected(c))))
          /\ levels.comp_ack = (c.comp_ack \/ (comp_ready /\ c.orig_req))
      BY <2>4 DEF Handshake
    <3> HIDE DEF a, b, levels, next
    <3>3. a.req = levels.orig_req /\ a.ack = levels.orig_ack /\ b.req = levels.comp_req /\ b.ack = levels.comp_ack
      BY <3>1, <3>2, Zenon
    <3> QED  BY <2>2, <2>3, <3>3, Zenon DEF a, b, next
  <2>5. CASE ~k.running
    <3>1. a.req = FALSE /\ a.ack = FALSE /\ b.req = FALSE /\ b.ack = FALSE
      BY <1>1, <1>2, <2>5 DEF HwSide, OrigSide, CompSide, RxConnected
    <3>2. /\ levels.orig_req = FALSE /\ levels.orig_ack = FALSE
          /\ levels.comp_req = FALSE /\ levels.comp_ack = FALSE
      BY <2>5 DEF Disconnected
    <3> HIDE DEF a, b, levels, next
    <3>3. a.req = levels.orig_req /\ a.ack = levels.orig_ack /\ b.req = levels.comp_req /\ b.ack = levels.comp_ack
      BY <3>1, <3>2, Zenon
    <3> QED  BY <2>2, <2>3, <3>3, Zenon DEF a, b, next
  <2> QED  BY <2>4, <2>5
<1> QED  BY <1>3, <1>4, Zenon DEF SidesInStep

\* The state machine of the initializer publishes what the schedule says.
LEMMA InitializerFollows == LoopInv => InitializerInStep
<1> SUFFICES ASSUME LoopInv, NEW p \in Ports
             PROVE  HwInitializer(InitializerPort(receiver.initial, p), p,
                                  CreditConnected(controller.signals))
                      = InitializerPort(Publish(receiver.initial, CreditConnected(controller.signals)), p)
  BY DEF InitializerInStep
<1> DEFINE k == receiver.initial
           connected == CreditConnected(controller.signals)
           next == Publish(k, connected)
           at == k.account[p]
           issued == k.issued[p]
           cap == Capacity[p][at]
           remaining == (IF at > Pool THEN 0 ELSE cap) - issued
           limit == 2^CreditWidth
           r == InitializerPort(k, p)
           hw == HwInitializer(r, p, connected)
           ref == InitializerPort(next, p)
<1>1. /\ at \in 0..(Pool + 1) /\ issued \in Nat /\ VCs \in Nat \ {0} /\ Batch \in Nat \ {0} /\ Pool = VCs
      /\ at <= Pool => cap \in Nat /\ cap < limit
      /\ at > Pool => issued = 0
      /\ at <= Pool => issued = 0 \/ issued < cap
      /\ limit \in Nat /\ Batch < limit
  <2>1. PublisherOK(k, p)
    BY DEF LoopInv, ReceiverOK
  <2>2. at <= Pool => cap \in Nat /\ cap < limit
    <3> HIDE DEF limit
    <3> SUFFICES ASSUME at <= Pool PROVE cap \in Nat /\ cap < limit
      OBVIOUS
    <3>1. at \in 0..Pool
      BY <2>1, CreditAssumption DEF PublisherOK, Pool
    <3> QED  BY <3>1, CreditAssumption, HardwareAssumption DEF limit
  <2> HIDE DEF limit
  <2> QED  BY <2>1, <2>2, CounterRange, CreditAssumption DEF PublisherOK, Pool, limit
<1>2. ~connected => k.grants[p] = NoGrant /\ p \notin k.done
  BY DEF LoopInv, BusIsLegal, Bus, OnBus
<1>3. p \in k.done => at > Pool
  BY DEF LoopInv, ReceiverOK, PublisherOK
<1>4. r = [state |-> at, issued |-> issued, grant |-> k.grants[p], done |-> p \in k.done]
  BY DEF InitializerPort
<1>5. /\ hw = [state |-> hw.state, issued |-> hw.issued, grant |-> hw.grant, done |-> hw.done]
      /\ ref = [state |-> next.account[p], issued |-> next.issued[p], grant |-> next.grants[p],
                done |-> p \in next.done]
  BY DEF HwInitializer, InitializerPort
<1>6. hw.done = (p \in k.done \/ (connected /\ at > Pool))
  BY DEF HwInitializer, InitializerPort
<1>7. CASE ~connected
  <2>1. next = k
    BY <1>7 DEF Publish
  <2>2. hw.state = at /\ hw.issued = issued /\ hw.grant = NoGrant
    BY <1>7 DEF HwInitializer, InitializerPort
  <2>3. hw.done = (p \in next.done)
    <3>1. (p \in k.done \/ (connected /\ at > Pool)) = FALSE
      BY <1>2, <1>7
    <3>2. (p \in next.done) = FALSE
      BY <1>2, <1>7, <2>1
    <3> HIDE DEF hw, next, k
    <3> QED  BY <1>6, <3>1, <3>2, Zenon
  <2> HIDE DEF hw, ref
  <2> QED  BY <1>2, <1>5, <1>7, <2>1, <2>2, <2>3, Zenon DEF hw, ref
<1>8. CASE connected /\ at > Pool
  <2>1. next.account[p] = at /\ next.issued[p] = 0 /\ next.grants[p] = NoGrant /\ p \in next.done
    BY <1>8 DEF Publish, Published, InitialGrant
  <2>2. ~ (at <= Pool)
    BY <1>1, <1>8
  <2>3. hw.state = at /\ hw.issued = 0 /\ hw.grant = NoGrant
    BY <1>1, <2>2 DEF HwInitializer, InitializerPort
  <2>4. hw.done = (p \in next.done)
    BY <1>6, <1>8, <2>1, Zenon
  <2> HIDE DEF hw, ref, next
  <2> QED  BY <1>5, <2>1, <2>3, <2>4, Zenon DEF hw, ref, next
<1>9. CASE connected /\ at <= Pool
  <2>1. ~ (at > Pool) /\ remaining = cap - issued
    BY <1>1, <1>9
  <2> DEFINE last == issued + Batch >= cap
  <2>2. (remaining <= Batch) <=> last
    BY <1>1, <1>9, <2>1
  <2>3. /\ next.account[p] = IF last THEN at + 1 ELSE at
        /\ next.issued[p] = IF last THEN 0 ELSE issued + Batch
        /\ p \notin next.done
    BY <1>9, <2>1 DEF Publish, Published, LastOfAccount
  <2>4. next.grants[p] = IF cap = 0 THEN NoGrant
                         ELSE [vc |-> IF at = Pool THEN 0 ELSE at, pool |-> at = Pool,
                               count |-> IF cap - issued < Batch THEN cap - issued ELSE Batch]
    BY <1>9, <2>1 DEF Publish, Published, InitialGrant
  <2>5. /\ hw.state = IF remaining <= Batch THEN at + 1 ELSE at
        /\ hw.issued = IF remaining <= Batch THEN 0 ELSE (issued + Batch) % limit
        /\ hw.grant = IF remaining = 0 THEN NoGrant
                      ELSE [vc |-> IF at < Pool THEN at ELSE 0, pool |-> at = Pool,
                            count |-> Encoded(remaining) + 1]
    BY <1>9, <2>1 DEF HwInitializer, InitializerPort
  <2>6. ~last => (issued + Batch) % limit = issued + Batch
    <3> HIDE DEF limit
    <3> SUFFICES ASSUME ~last PROVE (issued + Batch) % limit = issued + Batch
      OBVIOUS
    <3>1. issued + Batch \in Nat /\ issued + Batch < limit /\ limit \in Nat
      BY <1>1, <1>9
    <3> QED  BY <3>1
  <2>7. remaining = 0 <=> cap = 0
    BY <1>1, <1>9, <2>1, SMTT(30)
  <2>8. remaining # 0 => Encoded(remaining) + 1 = IF cap - issued < Batch THEN cap - issued ELSE Batch
    BY <1>1, <1>9, <2>1, SMTT(30) DEF Encoded
  <2>9. (IF at < Pool THEN at ELSE 0) = (IF at = Pool THEN 0 ELSE at)
    BY <1>1, <1>9
  <2>10. hw.done = (p \in next.done)
    <3>1. (p \in k.done \/ (connected /\ at > Pool)) = FALSE
      BY <1>3, <2>1
    <3>2. (p \in next.done) = FALSE
      BY <2>3
    <3> HIDE DEF hw, next, k
    <3> QED  BY <1>6, <3>1, <3>2, Zenon
  <2> HIDE DEF hw, ref, next, remaining, last, limit
  <2>11. hw.state = next.account[p] /\ hw.issued = next.issued[p]
    BY <2>2, <2>3, <2>5, <2>6
  <2>12. hw.grant = next.grants[p]
    <3>1. CASE cap = 0
      BY <2>4, <2>5, <2>7, <3>1, Zenon
    <3>2. CASE cap # 0
      <4>1. hw.grant = [vc |-> IF at = Pool THEN 0 ELSE at, pool |-> at = Pool,
                        count |-> Encoded(remaining) + 1]
        BY <2>5, <2>7, <2>9, <3>2, Zenon
      <4> QED  BY <2>4, <2>7, <2>8, <3>2, <4>1, Zenon
    <3> QED  BY <3>1, <3>2
  <2> QED  BY <1>5, <2>10, <2>11, <2>12, Zenon DEF hw, ref, next
<1>10. at > Pool \/ at <= Pool
  BY <1>1
<1> QED  BY <1>7, <1>8, <1>9, <1>10, Zenon

\* Beats are enabled only with the channel's credit connected.
LEMMA BeatsNeedCredit == \A c : BeatsEnabled(c) => CreditConnected(c)
BY DEF BeatsEnabled, CreditConnected

\* A FIFO without storage is never ready, and one with a word at its head has some.
LEMMA StorageIsReady ==
  ASSUME LoopInv, NEW pa \in Accounts
  PROVE  /\ StorageReady(receiver, pa) <=> Ready(receiver.fifo[pa], CapacityOf(pa))
         /\ Valid(receiver.fifo[pa]) => CapacityOf(pa) > 0
<1> DEFINE n == Stored(pa)
           c == CapacityOf(pa)
           f == receiver.fifo[pa]
           v == Len(f.visible)
           p == Len(f.pending)
           u == Len(f.unread)
<1>1. n \in Nat /\ c \in Nat
  BY PlacesOfCredit, AccountParts
<1>2. n <= c
  BY LoopInvKeepsCredit DEF CreditKept, LoopTypeOK
<1>3. Ready(f, c) <=> n < c
  BY DEF Ready, Stored
<1>4. f \in Buffers(WordsOf(pa[2]))
  BY DEF LoopInv, ReceiverOK
<1>5. v \in Nat /\ p \in Nat /\ u \in Nat /\ (f.visible # << >> => v # 0)
  BY <1>4, OfferIsSeq, LenProperties, EmptySeq DEF Buffers
<1>6. n = u + p + v
  BY DEF Stored, Count
<1> HIDE DEF n, c, v, p, u
<1>7. f.visible # << >> => c > 0
  BY <1>1, <1>2, <1>5, <1>6
<1>8. Valid(f) => c > 0
  BY <1>7 DEF Valid
<1>9. c > 0 /\ Ready(f, c) <=> Ready(f, c)
  BY <1>1, <1>3
<1> QED  BY <1>8, <1>9 DEF StorageReady, c

\* Storage, return queue and diagnostic agree on every beat and every consumer.
LEMMA ChannelFollows == LoopInv => ChannelInStep
<1> SUFFICES ASSUME LoopInv PROVE ChannelInStep
  OBVIOUS
<1> DEFINE r == receiver
           c == controller.signals
<1>1. ASSUME NEW b \in NativeBeats
      PROVE  /\ HwDiagnostic(r, c, b) = Diagnostic(r, c, b)
             /\ HwWrites(r, c, b) = {pa \in Accounts : Accepts(r, c, b) /\ Selects(b, pa)}
  <2> DEFINE a == AccountOf(b.meta)
             mine == <<b.port, a>>
             found == \E pa \in Accounts : Selects(b, pa) /\ StorageReady(r, pa)
  <2>1. a \in 0..Pool
    BY AccountParts DEF NativeBeats
  <2>2. ASSUME b.port \in Ports
        PROVE  /\ mine \in Accounts /\ Selects(b, mine)
               /\ \A pa \in Accounts : Selects(b, pa) <=> pa = mine
               /\ StorageReady(r, mine) <=> Ready(r.fifo[mine], Capacity[b.port][a])
    <3>1. mine \in Accounts
      BY <2>1, <2>2, AccountParts
    <3>2. \A pa \in Accounts : Selects(b, pa) <=> pa = mine
      BY AccountParts DEF Selects
    <3>3. StorageReady(r, mine) <=> Ready(r.fifo[mine], CapacityOf(mine))
      BY <3>1, StorageIsReady
    <3> QED  BY <3>1, <3>2, <3>3 DEF CapacityOf
  <2>3. b.port \in Ports => (found <=> Ready(r.fifo[mine], Capacity[b.port][a]))
    BY <2>2
  <2>4. HwDiagnostic(r, c, b) = Diagnostic(r, c, b)
    <3>1. ~BeatsEnabled(c) \/ ~CreditConnected(c) <=> ~BeatsEnabled(c)
      BY BeatsNeedCredit
    <3>2. CASE b.port \notin Ports
      BY <3>2 DEF HwDiagnostic, Diagnostic
    <3>3. CASE b.port \in Ports
      BY <2>3, <3>1, <3>3 DEF HwDiagnostic, Diagnostic
    <3> QED  BY <3>2, <3>3
  <2>5. ASSUME NEW pa \in Accounts
        PROVE  (/\ CreditConnected(c) /\ BeatsEnabled(c) /\ pa[1] \in r.initial.done
                /\ Selects(b, pa) /\ StorageReady(r, pa))
               <=> Accepts(r, c, b) /\ Selects(b, pa)
    <3>1. CASE ~Selects(b, pa)
      BY <3>1
    <3>2. CASE Selects(b, pa)
      <4>1. b.port = pa[1] /\ b.port \in Ports
        BY <3>2, AccountParts DEF Selects
      <4>2. pa = mine /\ (StorageReady(r, pa) <=> Ready(r.fifo[mine], Capacity[b.port][a]))
        BY <2>2, <3>2, <4>1
      <4>3. Accepts(r, c, b) <=> /\ BeatsEnabled(c) /\ b.port \in r.initial.done
                                 /\ Ready(r.fifo[mine], Capacity[b.port][a])
        BY <4>1 DEF Accepts, Diagnostic
      <4> QED  BY <3>2, <4>1, <4>2, <4>3, BeatsNeedCredit
    <3> QED  BY <3>1, <3>2
  <2>6. HwWrites(r, c, b) = {pa \in Accounts : Accepts(r, c, b) /\ Selects(b, pa)}
    BY <2>5 DEF HwWrites
  <2> QED  BY <2>4, <2>6
<1>2. ASSUME NEW consumer \in NativeAccounts
      PROVE  LET taken == {pa \in {consumer} : MayRetire(r, pa)}
             IN  HwReads(r, consumer) = taken /\ HwRetires(r, consumer) = taken
  <2> DEFINE pa == consumer
             may == MayRetire(r, pa)
             taken == {x \in {consumer} : MayRetire(r, x)}
  <2>1. taken = IF may THEN {pa} ELSE {}
    OBVIOUS
  <2>2. HwReads(r, pa) = IF may THEN {pa} ELSE {}
    <3>1. CASE pa \notin Accounts
      BY <3>1 DEF HwReads, MayRetire
    <3>2. CASE pa \in Accounts
      <4>1. Valid(r.fifo[pa]) => CapacityOf(pa) > 0
        BY <3>2, StorageIsReady
      <4> QED  BY <3>2, <4>1 DEF HwReads, MayRetire, ReturnReady
    <3> QED  BY <3>1, <3>2
  <2>3. HwRetires(r, pa) = IF may THEN {pa} ELSE {}
    <3>1. CASE pa \notin Accounts
      BY <3>1 DEF HwRetires, MayRetire
    <3>2. CASE pa \in Accounts
      <4>1. Valid(r.fifo[pa]) => CapacityOf(pa) > 0
        BY <3>2, StorageIsReady
      <4>2. HwReturnReady(r, pa[1]) <=> ReturnReady(r.returns, pa[1])
        BY <3>2, AccountParts DEF HwReturnReady, ReturnReady
      <4> QED  BY <3>2, <4>1, <4>2 DEF HwRetires, MayRetire
    <3> QED  BY <3>1, <3>2
  <2> QED  BY <2>1, <2>2, <2>3
<1> QED  BY <1>1, <1>2 DEF ChannelInStep

\* One account of the bank: it reports an error where its balance would leave the
\* storage of the account, or where there is nothing to spend.
LEMMA BankAccount ==
  ASSUME NEW cap \in Nat, NEW balance \in 0..cap, NEW g \in 0..Batch, NEW spent \in {0, 1},
         cap < 2^CreditWidth
  PROVE  /\ (spent = 1 /\ balance = 0) \/ (g > 0 /\ Excess(cap, balance, g - spent))
              <=> (spent = 1 /\ balance < 1) \/ (balance + g) - spent \notin 0..cap
         /\ (balance + g) - spent \in 0..cap =>
              ((balance + g) - spent) % 2^CreditWidth = (balance + g) - spent
<1> DEFINE limit == 2^CreditWidth
           more == g - spent
<1>1. /\ limit \in Nat /\ limit > 0 /\ 2^(CreditWidth + 1) = 2 * limit /\ Batch < limit
      /\ Batch \in Nat /\ cap < limit
  BY CounterRange, CreditAssumption
<1>2. more \in Int /\ more <= Batch /\ g \in Nat /\ balance \in Nat /\ spent \in Nat
  BY <1>1
<1>3. Excess(cap, balance, more) <=>
        more > 0 /\ ((cap - more) % (2 * limit) >= limit \/ balance > (cap - more) % (2 * limit))
  BY <1>1 DEF Excess
<1> HIDE DEF limit
<1>4. more > 0 => (Excess(cap, balance, more) <=> balance + more > cap)
  <2> SUFFICES ASSUME more > 0 PROVE Excess(cap, balance, more) <=> balance + more > cap
    OBVIOUS
  <2> DEFINE x == cap - more
             m == 2 * limit
  <2>1. x \in Int /\ m \in Nat /\ m > 0 /\ x < limit /\ x > -limit /\ m = limit + limit
    BY <1>1, <1>2
  <2>2. CASE x >= 0
    <3>1. x % m = x
      <4> HIDE DEF x, m
      <4>1. x \in Nat /\ x < m
        BY <1>1, <2>1, <2>2
      <4> QED  BY <2>1, <4>1
    <3> QED  BY <1>1, <1>2, <1>3, <2>1, <2>2, <3>1
  <2>3. CASE x < 0
    <3>1. x % m = x + m
      <4> HIDE DEF x, m
      <4>1. x + m \in Nat /\ x + m < m
        BY <1>1, <2>1, <2>3
      <4> QED  BY <2>1, <4>1
    <3>2. x % m >= limit
      BY <1>1, <2>1, <3>1
    <3> QED  BY <1>1, <1>2, <1>3, <2>1, <2>3, <3>2
  <2> QED  BY <2>1, <2>2, <2>3
<1>5. ~ (more > 0) => ~Excess(cap, balance, more)
  BY DEF Excess
<1>6. (spent = 1 /\ balance = 0) \/ (g > 0 /\ Excess(cap, balance, more))
         <=> (spent = 1 /\ balance < 1) \/ (balance + g) - spent \notin 0..cap
  BY <1>1, <1>2, <1>4, <1>5
<1>7. (balance + g) - spent \in 0..cap =>
        ((balance + g) - spent) % limit = (balance + g) - spent
  <2> DEFINE x == (balance + g) - spent
  <2> HIDE DEF x
  <2> SUFFICES ASSUME x \in 0..cap PROVE x % limit = x
    BY DEF x
  <2>1. x \in Nat /\ x < limit
    BY <1>1
  <2> QED  BY <1>1, <2>1
<1> QED  BY <1>6, <1>7 DEF limit

\* What an edge does to an account: what the grant returns and what the beat spends.
LEMMA AccountAtEdge ==
  ASSUME NEW grant \in AnyGrant, NEW a \in 0..Pool
  PROVE  /\ Granted(grant, a) \in 0..Batch
         /\ Returned(grant, a) <=> Granted(grant, a) > 0
         /\ Returned(grant, a) => Granted(grant, a) = grant.count
<1>1. CASE grant = NoGrant
  BY <1>1, NothingGranted, CreditAssumption DEF Returned
<1>2. CASE grant # NoGrant
  <2>1. grant.count \in 1..Batch
    BY <1>2 DEF AnyGrant
  <2> QED  BY <1>2, <2>1, CreditAssumption DEF Returned, Granted
<1> QED  BY <1>1, <1>2

\* The bank reports an error where the ledger refuses the edge, and otherwise
\* holds what the ledger holds after it.
LEMMA BankPortFollows ==
  ASSUME LoopInv, NEW p \in Ports, NEW grant \in AnyGrant, NEW beats \in AtMostOne(Beats),
         NEW done \in BOOLEAN
  PROVE  LET r == BankPort(ledger, p)
             c == controller.signals
             refused == LedgerRefuses(ledger, c, p, grant, beats, done)
             grants == [q \in Ports |-> IF q = p THEN grant ELSE NoGrant]
             next == LedgerStep(ledger, grants, beats, IF done THEN {p} ELSE {})
         IN  /\ HwPortError(r, p, c, grant, beats, done) = refused
             /\ ~refused => HwBankPort(r, p, grant, beats, done) = BankPort(next, p)
<1> DEFINE r == BankPort(ledger, p)
           c == controller.signals
           refused == LedgerRefuses(ledger, c, p, grant, beats, done)
           wrong == HwPortError(r, p, c, grant, beats, done)
           grants == [q \in Ports |-> IF q = p THEN grant ELSE NoGrant]
           seen == IF done THEN {p} ELSE {}
           next == LedgerStep(ledger, grants, beats, seen)
           b(a) == ledger.balance[<<p, a>>]
           g(a) == Granted(grant, a)
           spent(a) == IF Sent(beats, p, a) THEN 1 ELSE 0
           cap(a) == Capacity[p][a]
           here == {x \in beats : x.port = p}
           fits(a) == (b(a) + g(a)) - spent(a) \in 0..cap(a)
<1>1. ASSUME NEW a \in 0..Pool
      PROVE  /\ cap(a) \in Nat /\ b(a) \in 0..cap(a) /\ g(a) \in 0..Batch /\ spent(a) \in {0, 1}
             /\ cap(a) < 2^CreditWidth /\ r.balance[a] = b(a)
             /\ Sent(beats, p, a) <=> spent(a) = 1
             /\ b(a) + g(a) - spent(a) = (b(a) + g(a)) - spent(a)
  <2>1. <<p, a>> \in Accounts /\ CapacityOf(<<p, a>>) = cap(a) /\ cap(a) \in Nat
    BY AccountParts DEF CapacityOf
  <2>2. b(a) \in 0..cap(a)
    BY <2>1, LoopInvKeepsCredit DEF CreditKept, LoopTypeOK
  <2>3. g(a) \in 0..Batch /\ cap(a) < 2^CreditWidth
    BY AccountAtEdge, HardwareAssumption
  <2>4. r.balance[a] = b(a)
    BY DEF BankPort
  <2>5. b(a) + g(a) - spent(a) = (b(a) + g(a)) - spent(a)
    <3> HIDE DEF b, g, cap
    <3>1. b(a) \in Int /\ g(a) \in Int
      BY <2>1, <2>2, <2>3, CreditAssumption
    <3> QED  BY <3>1
  <2> QED  BY <2>1, <2>2, <2>3, <2>4, <2>5
<1>2. ASSUME NEW a \in 0..Pool
      PROVE  /\ HwAccountError(r, p, a, grant, beats) <=> (spent(a) = 1 /\ b(a) < 1) \/ ~fits(a)
             /\ fits(a) => ((b(a) + g(a)) - spent(a)) % 2^CreditWidth = (b(a) + g(a)) - spent(a)
  <2>1. HwAccountError(r, p, a, grant, beats)
          <=> (spent(a) = 1 /\ b(a) = 0) \/ (g(a) > 0 /\ Excess(cap(a), b(a), g(a) - spent(a)))
    <3>1. Returned(grant, a) <=> g(a) > 0
      BY AccountAtEdge
    <3>2. Returned(grant, a) =>
            (IF Sent(beats, p, a) THEN grant.count - 1 ELSE grant.count) = g(a) - spent(a)
      <4>1. Returned(grant, a) => grant.count = g(a) /\ g(a) \in Int
        BY AccountAtEdge, CreditAssumption
      <4> HIDE DEF g
      <4> QED  BY <4>1
    <3> HIDE DEF g
    <3> QED  BY <1>1, <3>1, <3>2 DEF HwAccountError
  <2>2. /\ cap(a) \in Nat /\ b(a) \in 0..cap(a) /\ g(a) \in 0..Batch /\ spent(a) \in {0, 1}
        /\ cap(a) < 2^CreditWidth
    BY <1>1
  <2> HIDE DEF b, g, spent, cap
  <2> QED  BY <2>1, <2>2, BankAccount
<1>3. refused <=> \/ (grant # NoGrant \/ (done /\ p \notin ledger.initialized)) /\ ~CreditConnected(c)
                  \/ \E x \in here : ~MaySend(ledger, c, p, x.meta)
                  \/ \E a \in 0..Pool : ~fits(a)
  <2> DEFINE cost(a) == IF \E x \in here : AccountOf(x.meta) = a THEN 1 ELSE 0
  <2>1. \A a : cost(a) = spent(a)
    BY DEF Sent
  <2>2. \A a \in 0..Pool : (b(a) + g(a) - cost(a) \notin 0..cap(a)) <=> ~fits(a)
    BY <1>1, <2>1
  <2>3. refused <=> \/ (grant # NoGrant \/ (done /\ p \notin ledger.initialized)) /\ ~CreditConnected(c)
                    \/ \E x \in here : ~MaySend(ledger, c, p, x.meta)
                    \/ \E a \in 0..Pool : b(a) + g(a) - cost(a) \notin 0..cap(a)
    BY DEF LedgerRefuses
  <2> HIDE DEF cost, fits, refused, b, g, cap
  <2> QED  BY <2>2, <2>3
<1>4. (\E x \in here : ~MaySend(ledger, c, p, x.meta))
        <=> \/ (\E x \in here : TRUE) /\ (~BeatsEnabled(c) \/ p \notin ledger.initialized)
            \/ \E a \in 0..Pool : spent(a) = 1 /\ b(a) < 1
  <2>1. ASSUME NEW x \in here
        PROVE  /\ AccountOf(x.meta) \in 0..Pool /\ spent(AccountOf(x.meta)) = 1
               /\ MaySend(ledger, c, p, x.meta)
                    <=> BeatsEnabled(c) /\ p \in ledger.initialized /\ b(AccountOf(x.meta)) >= 1
    <3>1. x \in Beats /\ x.port = p
      BY DEF AtMostOne
    <3>2. x.meta \in Metas
      BY <3>1 DEF Beats
    <3> QED  BY <3>1, <3>2, AccountParts DEF Sent, MaySend
  <2>2. \A a \in 0..Pool : spent(a) = 1 => \E x \in here : AccountOf(x.meta) = a
    BY DEF Sent
  <2>3. \A a \in 0..Pool : b(a) >= 1 <=> ~(b(a) < 1)
    <3> SUFFICES ASSUME NEW a \in 0..Pool PROVE b(a) >= 1 <=> ~(b(a) < 1)
      OBVIOUS
    <3>1. b(a) \in 0..cap(a) /\ cap(a) \in Nat
      BY <1>1
    <3> HIDE DEF b, cap
    <3> QED  BY <3>1
  <2> HIDE DEF b, spent, here
  <2> QED  BY <2>1, <2>2, <2>3
<1>5. r.init = (p \in ledger.initialized)
  BY DEF BankPort
<1>6. wrong <=> \/ (grant # NoGrant \/ (done /\ p \notin ledger.initialized)) /\ ~CreditConnected(c)
                \/ (\E x \in here : TRUE) /\ (~BeatsEnabled(c) \/ p \notin ledger.initialized)
                \/ \E a \in 0..Pool : (spent(a) = 1 /\ b(a) < 1) \/ ~fits(a)
  <2>1. (\E x \in beats : x.port = p) <=> \E x \in here : TRUE
    OBVIOUS
  <2>2. (\E a \in 0..Pool : HwAccountError(r, p, a, grant, beats))
          <=> \E a \in 0..Pool : (spent(a) = 1 /\ b(a) < 1) \/ ~fits(a)
    BY <1>2
  <2>3. wrong <=> \/ grant # NoGrant /\ ~CreditConnected(c)
                  \/ ~r.init /\ done /\ ~CreditConnected(c)
                  \/ /\ \E x \in beats : x.port = p
                     /\ ~BeatsEnabled(c) \/ ~CreditConnected(c) \/ ~r.init
                  \/ \E a \in 0..Pool : HwAccountError(r, p, a, grant, beats)
    BY DEF HwPortError
  <2> HIDE DEF wrong, r, spent, b, fits, here
  <2> QED  BY <1>5, <2>1, <2>2, <2>3, BeatsNeedCredit
<1>7. wrong <=> refused
  <2> HIDE DEF wrong, refused, spent, b, fits, here
  <2> QED  BY <1>3, <1>4, <1>6
<1>8. wrong \in BOOLEAN /\ refused \in BOOLEAN
  BY DEF HwPortError, LedgerRefuses
<1>9. wrong = refused
  <2> HIDE DEF wrong, refused
  <2> QED  BY <1>7, <1>8
<1>10. ASSUME ~refused
       PROVE  HwBankPort(r, p, grant, beats, done) = BankPort(next, p)
  <2>1. \A a \in 0..Pool : fits(a)
    <3> HIDE DEF refused, fits
    <3> QED  BY <1>3, <1>10
  <2>2. ASSUME NEW a \in 0..Pool
        PROVE  (r.balance[a] + (IF Returned(grant, a) THEN grant.count ELSE 0)
                  - (IF Sent(beats, p, a) THEN 1 ELSE 0)) % 2^CreditWidth
                 = next.balance[<<p, a>>]
    <3>1. (IF Returned(grant, a) THEN grant.count ELSE 0) = g(a)
      <4>1. g(a) \in Nat /\ (Returned(grant, a) <=> g(a) > 0) /\ (Returned(grant, a) => g(a) = grant.count)
        BY AccountAtEdge, CreditAssumption
      <4> HIDE DEF g
      <4> QED  BY <4>1
    <3>2. next.balance[<<p, a>>] = b(a) + g(a) - spent(a)
      <4>1. <<p, a>> \in Accounts
        BY AccountParts
      <4> QED  BY <4>1 DEF LedgerStep, Sent
    <3>3. /\ b(a) + g(a) - spent(a) = (b(a) + g(a)) - spent(a) /\ r.balance[a] = b(a)
          /\ ((b(a) + g(a)) - spent(a)) % 2^CreditWidth = (b(a) + g(a)) - spent(a)
      BY <1>1, <1>2, <2>1
    <3> HIDE DEF r, b, g, next
    <3> QED  BY <3>1, <3>2, <3>3
  <2>3. HwBankPort(r, p, grant, beats, done).balance = [a \in 0..Pool |-> next.balance[<<p, a>>]]
    <3> HIDE DEF r, next
    <3> QED  BY <2>2 DEF HwBankPort
  <2>4. OrderKept(ledger, receiver, p) /\ Stable \in Nat /\ Stable > 1
    BY CreditAssumption DEF LoopInv
  <2>5. next.streak[p] = IF p \in ledger.initialized THEN ledger.streak[p]
                         ELSE IF done THEN ledger.streak[p] + 1 ELSE 0
    BY DEF LedgerStep, Confirm
  <2>6. p \in next.initialized <=> p \in ledger.initialized \/ next.streak[p] >= Stable
    BY DEF LedgerStep
  <2>7. /\ ledger.streak[p] \in Nat
        /\ p \notin ledger.initialized => ledger.streak[p] < Stable
    BY <2>4 DEF OrderKept
  <2>8. r.cnt_init = IF ledger.streak[p] < LastInit THEN ledger.streak[p] ELSE LastInit
    BY DEF BankPort
  <2>9. HwBankPort(r, p, grant, beats, done).cnt_init
          = IF next.streak[p] < LastInit THEN next.streak[p] ELSE LastInit
    <3>1. HwBankPort(r, p, grant, beats, done).cnt_init
            = IF r.init THEN r.cnt_init ELSE IF ~done THEN 0
              ELSE IF r.cnt_init = LastInit THEN LastInit ELSE r.cnt_init + 1
      <4> HIDE DEF r
      <4> QED  BY DEF HwBankPort
    <3>2. p \in ledger.initialized =>
            r.init /\ next.streak[p] = ledger.streak[p]
      BY <1>5, <2>5
    <3>3. p \notin ledger.initialized =>
            ~r.init /\ next.streak[p] = IF done THEN ledger.streak[p] + 1 ELSE 0
      BY <1>5, <2>5
    <3> HIDE DEF r, next
    <3> QED  BY <2>4, <2>7, <2>8, <3>1, <3>2, <3>3 DEF LastInit
  <2>10. HwBankPort(r, p, grant, beats, done).init = (p \in next.initialized)
    <3>1. HwBankPort(r, p, grant, beats, done).init = (r.init \/ (done /\ r.cnt_init = LastInit))
      <4> HIDE DEF r
      <4> QED  BY DEF HwBankPort
    <3>2. (p \in ledger.initialized \/ (done /\ r.cnt_init = LastInit)) <=> p \in next.initialized
      <4> HIDE DEF r, next
      <4> QED  BY <2>4, <2>5, <2>6, <2>7, <2>8 DEF LastInit
    <3> DEFINE ends == r.cnt_init = LastInit
               before == p \in ledger.initialized
               after == p \in next.initialized
    <3>3. (before \/ (done /\ ends)) = after
      <4>1. (before \/ (done /\ ends)) <=> after
        BY <3>2
      <4>2. before \in BOOLEAN /\ after \in BOOLEAN /\ ends \in BOOLEAN
        OBVIOUS
      <4> HIDE DEF before, after, ends
      <4> QED  BY <4>1, <4>2
    <3>4. r.init = before
      BY <1>5
    <3>5. HwBankPort(r, p, grant, beats, done).init = (before \/ (done /\ ends))
      BY <3>1, <3>4
    <3> QED  BY <3>3, <3>5
  <2>11. HwBankPort(r, p, grant, beats, done)
           = [balance |-> HwBankPort(r, p, grant, beats, done).balance,
              cnt_init |-> HwBankPort(r, p, grant, beats, done).cnt_init,
              init |-> HwBankPort(r, p, grant, beats, done).init]
    BY DEF HwBankPort
  <2>12. BankPort(next, p)
           = [balance |-> [a \in 0..Pool |-> next.balance[<<p, a>>]],
              cnt_init |-> IF next.streak[p] < LastInit THEN next.streak[p] ELSE LastInit,
              init |-> p \in next.initialized]
    <3> HIDE DEF next
    <3> QED  BY DEF BankPort
  <2> HIDE DEF r, next
  <2> QED  BY <2>3, <2>9, <2>10, <2>11, <2>12
<1> HIDE DEF refused, wrong
<1> QED  BY <1>9, <1>10 DEF refused, wrong

\* The bank follows the ledger at every port, whatever the edge brings.
LEMMA BankFollows == LoopInv => BankInStep
BY BankPortFollows DEF BankInStep

\* In every state of every loop, and for every input of the next edge, the sides of
\* the connection, the credit bank, the initializer and the receive channel do what
\* the reference does.
THEOREM ChannelStaysInStep == LoopSpec => []LoopHardwareInStep
<1>1. LoopInv => LoopHardwareInStep
  BY SidesFollow, BankFollows, InitializerFollows, ChannelFollows DEF LoopHardwareInStep, LoopInv
<1> QED  BY <1>1, LoopInvariance, PTL
================================================================================
