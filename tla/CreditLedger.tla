--------------------------- MODULE CreditLedger ---------------------------
(***************************************************************************)
(* The transaction layer's credit ledger: what one end may still send,     *)
(* per slot.  Credits belong to four groups (request commands, response    *)
(* commands, request data, response data), each with a pool and its        *)
(* virtual channels.  Before initialisation completes, received credits    *)
(* raise the capacities as well; from then on they may only give back what *)
(* was spent.  In shared mode the two data pools become one.               *)
(*                                                                         *)
(* Reference: src/model/tl/credit_ledger.py.  Hardware:                    *)
(* src/rtl/tl/tl_credit_ledger.v, which keeps the same four registers and  *)
(* computes every slot by itself.                                          *)
(***************************************************************************)
EXTENDS Integers, Sequences, FiniteSetsExt, TLC

CONSTANTS Lanes,        \* lanes of a group, the pool included (5 in the code)
          CreditBits    \* width of one credit quantity

ASSUME LedgerAssumption == Lanes \in Nat \ {0} /\ CreditBits \in Nat \ {0}

Slots == 0 .. 4 * Lanes - 1
DataPool == 2 * Lanes                  \* slot 10 of the code
ResponsePool == 3 * Lanes              \* slot 15 of the code
RequestData == DataPool .. ResponsePool - 1
ResponseData == ResponsePool .. 4 * Lanes - 1
MaxQuantity == 2 ^ CreditBits - 1
Nothing == [s \in Slots |-> 0]

Plus(a, b) == [s \in Slots |-> a[s] + b[s]]
Minus(a, b) == [s \in Slots |-> a[s] - b[s]]
Fits(a, b) == \A s \in Slots : a[s] <= b[s]
Credit(amounts, slots) == FoldSet(LAMBDA s, sum : amounts[s] + sum, 0, slots)

\* Both data pools counted in the first one.
Pooled(a) == [a EXCEPT ![DataPool] = @ + a[ResponsePool], ![ResponsePool] = 0]

NewLedger == [capacity |-> Nothing, available |-> Nothing,
              done |-> FALSE, shared |-> FALSE]

---------------------------------------------------------------------------
(* Ledger.step.  `in` holds the quantities and control bits of one edge:   *)
(* grants, demands, receive, send, finish, shared.                         *)

Accounted(l, a) == IF l.shared THEN Pooled(a) ELSE a
Adds(l, in) == Accounted(l, IF in.receive THEN in.grants ELSE Nothing)
Completing(l, in) == in.receive /\ in.finish /\ ~l.done

ReceiveError(l, in) ==
    LET total == Plus(l.available, Adds(l, in))
    IN  \/ ~Fits(total, IF l.done THEN l.capacity
                                  ELSE [s \in Slots |-> MaxQuantity])
        \/ /\ Completing(l, in)
           /\ ~in.shared
           /\ \/ \A s \in RequestData : total[s] = 0
              \/ \A s \in ResponseData : total[s] = 0

Allowed(l, in) ==
    /\ l.done
    /\ ~ReceiveError(l, in)
    /\ Fits(Accounted(l, in.demands), l.available)

Spent(l, in) ==
    IF in.send /\ Allowed(l, in) THEN Accounted(l, in.demands) ELSE Nothing

Merged(l, in, amounts) ==
    IF Completing(l, in) /\ in.shared THEN Pooled(amounts) ELSE amounts

LedgerStep(l, in) ==
    IF ReceiveError(l, in) THEN l
    ELSE [capacity |-> IF l.done THEN l.capacity
                       ELSE Merged(l, in, Plus(l.capacity, Adds(l, in))),
          available |-> Merged(l, in, Minus(Plus(l.available, Adds(l, in)), Spent(l, in))),
          done |-> l.done \/ Completing(l, in),
          shared |-> IF Completing(l, in) THEN in.shared ELSE l.shared]

---------------------------------------------------------------------------
(* The hardware: one adder, one comparison and one register pair per slot; *)
(* sums are CreditBits + 1 bits wide.                                      *)

Wrap(n) == n % 2 ^ (CreditBits + 1)

HwAdd(l, in, s) ==
    IF ~in.receive THEN 0
    ELSE CASE l.shared /\ s = DataPool ->
                  Wrap(in.grants[DataPool] + in.grants[ResponsePool])
           [] l.shared /\ s = ResponsePool -> 0
           [] OTHER -> in.grants[s]

HwWant(l, in, s) ==
    CASE l.shared /\ s = DataPool ->
             Wrap(in.demands[DataPool] + in.demands[ResponsePool])
      [] l.shared /\ s = ResponsePool -> 0
      [] OTHER -> in.demands[s]

HwBad(l, in, s) ==
    LET limit == IF l.done THEN l.capacity[s] ELSE MaxQuantity
    IN  l.available[s] > limit \/ HwAdd(l, in, s) > limit - l.available[s]

HwFinish(l, in) == in.receive /\ in.finish /\ ~l.done

HwReceiveError(l, in) ==
    LET some(slots) == \E s \in slots : l.available[s] # 0 \/ HwAdd(l, in, s) # 0
    IN  \/ \E s \in Slots : HwBad(l, in, s)
        \/ HwFinish(l, in) /\ ~in.shared /\ ~(some(RequestData) /\ some(ResponseData))

HwAllowed(l, in) ==
    l.done /\ ~HwReceiveError(l, in)
           /\ \A s \in Slots : HwWant(l, in, s) <= l.available[s]

HwLedgerStep(l, in) ==
    LET total(s) == Wrap(l.available[s] + HwAdd(l, in, s))
        cap(s) == Wrap(l.capacity[s] + HwAdd(l, in, s))
        merge == HwFinish(l, in) /\ in.shared
        fold(f(_), s) == IF s = DataPool THEN Wrap(f(DataPool) + f(ResponsePool))
                                         ELSE 0
        pools == {DataPool, ResponsePool}
    IN  IF HwReceiveError(l, in) THEN l
        ELSE [capacity |-> [s \in Slots |->
                  CASE l.done -> l.capacity[s]
                    [] ~l.done /\ merge /\ s \in pools -> fold(cap, s)
                    [] OTHER -> cap(s)],
              available |-> [s \in Slots |->
                  CASE merge /\ s \in pools -> fold(total, s)
                    [] ~(merge /\ s \in pools) /\ in.send /\ HwAllowed(l, in) ->
                           Wrap(total(s) - HwWant(l, in, s))
                    [] OTHER -> total(s)],
              done |-> l.done \/ HwFinish(l, in),
              shared |-> IF HwFinish(l, in) THEN in.shared ELSE l.shared]
===========================================================================
