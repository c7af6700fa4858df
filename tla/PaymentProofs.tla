--------------------------- MODULE PaymentProofs ---------------------------
(***************************************************************************)
(* Theorems about Payment for every number of workers, orders, users and   *)
(* products, and every price, period and bound.                            *)
(***************************************************************************)
EXTENDS Payment, FiniteSetTheorems, TLAPS

USE DEF PaymentStatus, OrderStatus

-----------------------------------------------------------------------------
(* Types of the helpers.                                                   *)

LEMMA OwnerIsUser == \A o \in Orders : Owner(o) \in Users
BY PaymentAssumption DEF Owner

LEMMA PriceFacts == Price \in Nat /\ Price \in 1..Price /\ Period \in Nat /\ NoOrder \notin Orders
BY PaymentAssumption, SMT

LEMMA NoTxnType == NoTxn \in Txn /\ WellFormed(NoTxn)
BY DEF NoTxn, NoPlan, Txn, UserPlan, WellFormed

LEMMA CloseOrdersType ==
    ASSUME TypeOK, NEW S
    PROVE  CloseOrders(S) \in [Orders -> Order]
BY DEF TypeOK, CloseOrders, Order

(* Closing payment rows neither adds nor removes any, changes no trade     *)
(* number and leaves SUCCEEDED rows alone.                                 *)
LEMMA ClosePaymentsType ==
    ASSUME TypeOK, NEW S
    PROVE  /\ ClosePayments(S) \in [Orders -> Seq(Row)]
           /\ \A o \in Orders :
               /\ DOMAIN ClosePayments(S)[o] = DOMAIN rows[o]
               /\ \A i \in DOMAIN rows[o] :
                   /\ ClosePayments(S)[o][i].trade = rows[o][i].trade
                   /\ rows[o][i].st = "SUCCEEDED" => ClosePayments(S)[o][i].st = "SUCCEEDED"
<1> DEFINE C == ClosePayments(S)
<1>1. ASSUME NEW o \in Orders
      PROVE  /\ C[o] \in Seq(Row)
             /\ DOMAIN C[o] = DOMAIN rows[o]
             /\ \A i \in DOMAIN rows[o] :
                   /\ C[o][i].trade = rows[o][i].trade
                   /\ rows[o][i].st = "SUCCEEDED" => C[o][i].st = "SUCCEEDED"
  <2>1. rows[o] \in Seq(Row)
    BY DEF TypeOK
  <2>2. CASE o \notin S
    BY <2>1, <2>2 DEF ClosePayments
  <2>3. CASE o \in S
    <3> DEFINE f == [i \in DOMAIN rows[o] |->
                        IF rows[o][i].st = "PENDING" THEN [rows[o][i] EXCEPT !.st = "CLOSED"]
                                                     ELSE rows[o][i]]
    <3>1. C[o] = f
      BY <2>3 DEF ClosePayments
    <3>2. \A i \in DOMAIN rows[o] : rows[o][i] \in Row
      BY <2>1
    <3>3. \A i \in DOMAIN rows[o] :
            /\ f[i] \in Row
            /\ f[i].trade = rows[o][i].trade
            /\ rows[o][i].st = "SUCCEEDED" => f[i].st = "SUCCEEDED"
      BY <3>2 DEF Row
    <3>4. Len(rows[o]) \in Nat /\ DOMAIN rows[o] = 1..Len(rows[o])
      BY <2>1
    <3>5. f \in [1..Len(rows[o]) -> Row]
      BY <3>3, <3>4
    <3>6. f \in Seq(Row)
      BY <3>4, <3>5
    <3> QED
      BY <3>1, <3>3, <3>4, <3>6
  <2> QED
    BY <2>2, <2>3
<1> QED
  BY <1>1 DEF ClosePayments

LEMMA PlanTypes ==
    ASSUME now \in Nat, NEW s \in UserPlan, NEW p \in UserPlan
    PROVE  /\ ActivatePlan(s, p) \in UserPlan
           /\ RevokePlan(s, p) \in UserPlan
           /\ ActivatePlan(s, p).tier = "pro" \/ ActivatePlan(s, p).tier = s.tier
           /\ RevokePlan(s, p).tier = "pro" => s.tier = "pro"
<1> DEFINE tier == Write(s.tier, p.tier, "pro")
           expires == (IF p.expires > now THEN p.expires ELSE now) + Period
<1>1. /\ s.tier \in {"none", "free", "pro"} /\ p.tier \in {"none", "free", "pro"}
      /\ s.expires \in Nat /\ p.expires \in Nat
  BY DEF UserPlan
<1>2. tier \in {"none", "free", "pro"} /\ (tier = "pro" \/ tier = s.tier)
  BY <1>1 DEF Write
<1>3. expires \in Nat
  BY <1>1, PriceFacts
<1>4. ActivatePlan(s, p) = [tier |-> tier, expires |-> expires]
  BY DEF ActivatePlan
<1>5. /\ RevokePlan(s, p) \in UserPlan
      /\ RevokePlan(s, p).tier = "pro" => s.tier = "pro"
  BY <1>1 DEF RevokePlan, Write, UserPlan
<1> HIDE DEF tier, expires
<1> QED
  BY <1>2, <1>3, <1>4, <1>5 DEF UserPlan

-----------------------------------------------------------------------------
(* A request that ends leaves a well-formed idle worker behind; what the   *)
(* others hold stays well-formed as long as no payment row disappears.     *)
RowsGrow == \A o \in Orders : DOMAIN rows[o] \subseteq DOMAIN rows'[o]

(* A step of worker w changes what w holds, and the rows only grow.        *)
WorkerStep(w) ==
    /\ txn' = [txn EXCEPT ![w] = txn'[w]]
    /\ txn'[w] \in Txn
    /\ WellFormed(txn[w])'
    /\ RowsGrow

LEMMA WorkerStepType ==
    ASSUME TypeOK, NEW w \in Workers, WorkerStep(w)
    PROVE  txn' \in [Workers -> Txn] /\ \A v \in Workers : WellFormed(txn[v])'
<1>1. txn' \in [Workers -> Txn]
  BY DEF TypeOK, WorkerStep
<1>2. ASSUME NEW v \in Workers
      PROVE  WellFormed(txn[v])'
  <2>1. CASE v = w
    BY <2>1 DEF WorkerStep
  <2>2. CASE v # w
    BY <2>2 DEF TypeOK, WellFormed, RowsGrow, WorkerStep
  <2> QED
    BY <2>1, <2>2
<1> QED
  BY <1>1, <1>2

(* Steps that only load rows, and requests that end without a write.       *)
Quiet == UNCHANGED <<order, rows, refunded, plan, chan, now>>

LEMMA QuietType ==
    ASSUME TypeOK, NEW w \in Workers, Quiet,
           txn' = [txn EXCEPT ![w] = txn'[w]], txn'[w] \in Txn, WellFormed(txn[w])'
    PROVE  TypeOK'
<1>1. WorkerStep(w)
  BY DEF WorkerStep, RowsGrow, Quiet
<1> QED
  BY <1>1, WorkerStepType DEF TypeOK, Quiet

LEMMA LeaveType ==
    ASSUME TypeOK, NEW w \in Workers, Leave(w), RowsGrow
    PROVE  WorkerStep(w)
<1>1. txn' = [txn EXCEPT ![w] = txn'[w]] /\ txn'[w] = NoTxn
  BY DEF Leave, TypeOK
<1>2. txn'[w] \in Txn /\ WellFormed(txn[w])'
  BY <1>1, NoTxnType DEF WellFormed, NoTxn
<1> QED
  BY <1>1, <1>2 DEF WorkerStep

(* A row appended to one order.                                            *)
LEMMA AppendType ==
    ASSUME NEW R \in [Orders -> Seq(Row)], NEW o \in Orders, NEW r \in Row,
           NEW Q, Q = [R EXCEPT ![o] = Append(@, r)]
    PROVE  /\ Q \in [Orders -> Seq(Row)]
           /\ \A p \in Orders : \A i \in DOMAIN R[p] : i \in DOMAIN Q[p] /\ Q[p][i] = R[p][i]
<1>1. R[o] \in Seq(Row) /\ Append(R[o], r) \in Seq(Row)
  OBVIOUS
<1>2. \A i \in DOMAIN R[o] : i \in DOMAIN Append(R[o], r) /\ Append(R[o], r)[i] = R[o][i]
  BY <1>1
<1> QED
  BY <1>1, <1>2

LEMMA PendingRowType == ASSUME TypeOK PROVE PendingRow \in Row
BY PriceFacts DEF TypeOK, PendingRow, Row

LEMMA RefundRowType == ASSUME TypeOK, NEW amt \in 1..Price PROVE RefundRow(amt) \in Row
BY DEF TypeOK, RefundRow, Row

-----------------------------------------------------------------------------
(* Every request action keeps the types: one lemma for each that writes.   *)

LEMMA CreateCommitType ==
    ASSUME TypeOK, NEW w \in Workers, CreateCommit(w) PROVE TypeOK' /\ RowsGrow
<1> DEFINE t == txn[w]  C == ClosePayments(t.closed)
<1>1. t.o \in Orders /\ t \in Txn
  BY DEF TypeOK, WellFormed, CreateCommit
<1>2. order' \in [Orders -> Order]
  BY <1>1, CloseOrdersType DEF CreateCommit, TypeOK, Order
<1>3. C \in [Orders -> Seq(Row)] /\ \A o \in Orders : DOMAIN C[o] = DOMAIN rows[o]
  BY ClosePaymentsType
<1>4. rows' = [C EXCEPT ![t.o] = Append(@, PendingRow)]
  BY DEF CreateCommit
<1>5. /\ rows' \in [Orders -> Seq(Row)]
      /\ \A o \in Orders : \A i \in DOMAIN C[o] : i \in DOMAIN rows'[o]
  <2> HIDE DEF C
  <2> QED
    BY <1>1, <1>3, <1>4, PendingRowType, AppendType
<1>6. RowsGrow
  BY <1>3, <1>5 DEF RowsGrow
<1>7. WorkerStep(w)
  BY <1>6, LeaveType DEF CreateCommit
<1> QED
  BY <1>2, <1>5, <1>6, <1>7, WorkerStepType DEF TypeOK, CreateCommit

LEMMA CloseType ==
    ASSUME TypeOK, NEW w \in Workers, NEW S,
           order' = CloseOrders(S), rows' = ClosePayments(S), Leave(w),
           UNCHANGED <<refunded, plan, chan, now>>
    PROVE  TypeOK' /\ RowsGrow
<1>1. order' \in [Orders -> Order]
  BY CloseOrdersType
<1>2. rows' \in [Orders -> Seq(Row)] /\ RowsGrow
  BY ClosePaymentsType DEF RowsGrow
<1>3. WorkerStep(w)
  BY <1>2, LeaveType
<1> QED
  BY <1>1, <1>2, <1>3, WorkerStepType DEF TypeOK

LEMMA RefundCommitType ==
    ASSUME TypeOK, NEW w \in Workers, RefundCommit(w) PROVE TypeOK' /\ RowsGrow
<1> DEFINE t == txn[w]  u == Owner(t.o)
<1>1. t.o \in Orders /\ t \in Txn /\ t.amt \in 1..Price /\ u \in Users
  BY OwnerIsUser DEF TypeOK, WellFormed, RefundCommit
<1>2. order' \in [Orders -> Order]
  BY <1>1 DEF RefundCommit, TypeOK, Order
<1>3. rows' = [rows EXCEPT ![t.o] = Append(@, RefundRow(t.amt))]
  BY DEF RefundCommit
<1>4. rows' \in [Orders -> Seq(Row)] /\ RowsGrow
  BY <1>1, <1>3, RefundRowType, AppendType DEF TypeOK, RowsGrow
<1>5. refunded' \in [Orders -> Int]
  BY <1>1, PriceFacts DEF RefundCommit, TypeOK
<1>6. plan' \in [Users -> UserPlan]
  <2>1. plan[u] \in UserPlan /\ t.plan \in UserPlan /\ now \in Nat
    BY <1>1 DEF TypeOK, Txn
  <2>2. RevokePlan(plan[u], t.plan) \in UserPlan
    BY <2>1, PlanTypes
  <2> QED
    BY <1>1, <2>1, <2>2 DEF RefundCommit, TypeOK
<1>7. WorkerStep(w)
  BY <1>4, LeaveType DEF RefundCommit
<1> QED
  BY <1>2, <1>4, <1>5, <1>6, <1>7, WorkerStepType DEF TypeOK, RefundCommit

LEMMA SettleType ==
    ASSUME TypeOK, NEW w \in Workers, Settle(w) PROVE TypeOK' /\ RowsGrow
<1> DEFINE t == txn[w]  u == Owner(t.o)  C == ClosePayments(t.closed)
           r == rows[t.o][t.row]
<1>1. t.o \in Orders /\ t \in Txn /\ t.row \in DOMAIN rows[t.o] /\ u \in Users
  BY OwnerIsUser DEF TypeOK, WellFormed, Settle
<1>2. order' \in [Orders -> Order]
  <2> DEFINE K == CloseOrders(t.closed)
             x == Write(K[t.o].st, t.st, "SUCCEEDED")
  <2>1. K \in [Orders -> Order]
    BY CloseOrdersType
  <2>2. order' = [K EXCEPT ![t.o] = [K[t.o] EXCEPT !.st = x]]
    BY <1>1, <2>1 DEF Settle
  <2> HIDE DEF K
  <2>3. K[t.o] \in Order
    BY <1>1, <2>1
  <2>4. x \in OrderStatus
    BY <2>3 DEF Order, Write, OrderStatus
  <2> HIDE DEF x
  <2>5. [K[t.o] EXCEPT !.st = x] \in Order
    BY <2>3, <2>4 DEF Order
  <2> QED
    BY <2>1, <2>2, <2>5
<1>3. C \in [Orders -> Seq(Row)] /\ \A o \in Orders : DOMAIN C[o] = DOMAIN rows[o]
  BY ClosePaymentsType
<1> DEFINE q == [C[t.o][t.row] EXCEPT !.st = "SUCCEEDED", !.trade = t.trade]
<1>4. q \in Row
  <2>1. C[t.o][t.row] \in Row
    BY <1>1, <1>3
  <2> QED
    BY <1>1, <2>1 DEF Row, Txn
<1>5. rows' = [C EXCEPT ![t.o] = [C[t.o] EXCEPT ![t.row] = q]]
  BY <1>1, <1>3 DEF Settle
<1>6. rows' \in [Orders -> Seq(Row)] /\ RowsGrow
  <2> HIDE DEF C, q
  <2>1. C[t.o] \in Seq(Row) /\ t.row \in DOMAIN C[t.o]
    BY <1>1, <1>3
  <2>2. [C[t.o] EXCEPT ![t.row] = q] \in Seq(Row)
    BY <1>4, <2>1
  <2>3. DOMAIN [C[t.o] EXCEPT ![t.row] = q] = DOMAIN C[t.o]
    BY <2>1
  <2> QED
    BY <1>1, <1>3, <1>5, <2>2, <2>3 DEF RowsGrow
<1>7. refunded' \in [Orders -> Int]
  <2>1. r \in Row
    BY <1>1 DEF TypeOK
  <2>2. r.amt \in Int
    BY <2>1, PriceFacts DEF Row
  <2>3. refunded \in [Orders -> Int]
    BY DEF TypeOK
  <2>4. refunded' = [refunded EXCEPT ![t.o] = IF r.st = "REFUNDED" THEN @ - r.amt ELSE @]
    BY DEF Settle
  <2> HIDE DEF r
  <2> QED
    BY <1>1, <2>2, <2>3, <2>4
<1>8. plan' \in [Users -> UserPlan]
  <2>1. plan[u] \in UserPlan /\ LoadedPlan(t) \in UserPlan /\ now \in Nat
    BY <1>1 DEF TypeOK, Txn, LoadedPlan
  <2>2. ActivatePlan(plan[u], LoadedPlan(t)) \in UserPlan
    BY <2>1, PlanTypes
  <2> QED
    BY <1>1, <2>1, <2>2 DEF Settle, TypeOK
<1>9. WorkerStep(w)
  BY <1>6, LeaveType DEF Settle
<1> QED
  BY <1>2, <1>6, <1>7, <1>8, <1>9, WorkerStepType DEF TypeOK, Settle

LEMMA Becomes ==
    ASSUME TypeOK, NEW w \in Workers, NEW t \in Txn, WellFormed(t), Quiet,
           txn' = [txn EXCEPT ![w] = t]
    PROVE  TypeOK' /\ RowsGrow
<1>1. txn' = [txn EXCEPT ![w] = txn'[w]] /\ txn'[w] = t
  BY DEF TypeOK
<1>2. WellFormed(txn[w])'
  BY <1>1 DEF WellFormed, Quiet
<1> QED
  BY <1>1, <1>2, QuietType DEF Quiet, RowsGrow

(* The steps that write nothing but what the worker itself holds.          *)
Loading(w) ==
    \/ \E u \in Users, p \in Products : CreateReuse(w, u, p) \/ CreateNew(w, u, p)
    \/ \E o \in Orders : PollOrder(w, o)
    \/ \E t \in Orders, echo \in Echoes : CallbackStart(w, t, echo)
    \/ \E o \in Orders, amt \in 1..Price : RefundStart(w, o, amt)
    \/ QueryUnpaid(w) \/ QueryPaid(w) \/ QueryRefresh(w)
    \/ CallbackOrder(w) \/ CallbackPayment(w) \/ CallbackMatch(w)
    \/ SettleFails(w) \/ RefundRefused(w) \/ Abort(w)

LEMMA LoadingType ==
    ASSUME TypeOK, NEW w \in Workers, Loading(w) PROVE TypeOK' /\ RowsGrow
<1> DEFINE OK == TypeOK' /\ RowsGrow
<1>0. /\ txn[w] \in Txn /\ WellFormed(txn[w])
      /\ \A o \in Orders : Owner(o) \in Users /\ rows[o] \in Seq(Row) /\ order[o].st \in OrderStatus
      /\ \A u \in Users : plan[u] \in UserPlan
      /\ NoPlan \in UserPlan
  BY OwnerIsUser DEF TypeOK, Order, NoPlan, UserPlan
<1>1. ASSUME NEW u \in Users, NEW p \in Products, CreateReuse(w, u, p) PROVE OK
  <2> PICK o \in Fresh(u, p) :
        txn' = [txn EXCEPT ![w] = [NoTxn EXCEPT !.pc = "create_query", !.o = o, !.trade = o,
                   !.st = "PENDING", !.plan = plan[u], !.closed = Stale(u, p)]]
    BY <1>1 DEF CreateReuse
  <2> DEFINE t == [NoTxn EXCEPT !.pc = "create_query", !.o = o, !.trade = o,
                      !.st = "PENDING", !.plan = plan[u], !.closed = Stale(u, p)]
  <2>1. t \in Txn /\ WellFormed(t)
    <3>1. t \in Txn /\ t.pc = "create_query" /\ t.o \in Orders
      BY <1>0, NoTxnType DEF Txn, Fresh, Stale, OrdersFor, OrderStatus
    <3> QED
      BY <1>0, <3>1 DEF WellFormed
  <2>2. txn' = [txn EXCEPT ![w] = t] /\ Quiet
    BY <1>1 DEF CreateReuse, Quiet
  <2> HIDE DEF t
  <2> QED
    BY <2>1, <2>2, Becomes
<1>2. ASSUME NEW u \in Users, NEW p \in Products, CreateNew(w, u, p) PROVE OK
  <2> PICK o \in OrdersFor(u, p) :
        txn' = [txn EXCEPT ![w] = [NoTxn EXCEPT !.pc = "create_place", !.o = o,
                   !.new = TRUE, !.closed = Stale(u, p)]]
    BY <1>2 DEF CreateNew
  <2> DEFINE t == [NoTxn EXCEPT !.pc = "create_place", !.o = o,
                      !.new = TRUE, !.closed = Stale(u, p)]
  <2>1. t \in Txn /\ WellFormed(t)
    <3>1. t \in Txn /\ t.pc = "create_place" /\ t.o \in Orders
      BY <1>0, NoTxnType DEF Txn, Stale, OrdersFor
    <3> QED
      BY <1>0, <3>1 DEF WellFormed
  <2>2. txn' = [txn EXCEPT ![w] = t] /\ Quiet
    BY <1>2 DEF CreateNew, Quiet
  <2> HIDE DEF t
  <2> QED
    BY <2>1, <2>2, Becomes
<1>3. ASSUME NEW o \in Orders, PollOrder(w, o) PROVE OK
  <2> DEFINE t == [NoTxn EXCEPT !.pc = "poll_query", !.o = o, !.trade = o,
                      !.st = "PENDING", !.plan = plan[Owner(o)]]
  <2>1. t \in Txn /\ WellFormed(t)
    <3>1. t \in Txn /\ t.pc = "poll_query" /\ t.o \in Orders
      BY <1>0, NoTxnType DEF Txn, OrderStatus
    <3> QED
      BY <1>0, <3>1 DEF WellFormed
  <2>2. txn' = [txn EXCEPT ![w] = t] /\ Quiet
    BY <1>3 DEF PollOrder, Quiet
  <2> HIDE DEF t
  <2> QED
    BY <2>1, <2>2, Becomes
<1>4. ASSUME NEW o \in Orders, NEW echo \in Echoes, CallbackStart(w, o, echo) PROVE OK
  <2> DEFINE pc == IF echo THEN "cb_order" ELSE "cb_match"
             t == [NoTxn EXCEPT !.trade = o, !.pc = pc]
  <2>1. pc \in {"cb_order", "cb_match"}
    OBVIOUS
  <2>2. txn' = [txn EXCEPT ![w] = t] /\ Quiet
    BY <1>4 DEF CallbackStart, Quiet
  <2> HIDE DEF pc
  <2>3. t \in Txn /\ WellFormed(t)
    BY <1>0, <2>1 DEF Txn, NoTxn, WellFormed
  <2> HIDE DEF t
  <2> QED
    BY <2>2, <2>3, Becomes
<1>5. ASSUME NEW o \in Orders, NEW amt \in 1..Price, RefundStart(w, o, amt) PROVE OK
  <2> DEFINE full == (amt + refunded[o] >= Price)
             t == [NoTxn EXCEPT !.pc = "refund_call", !.o = o, !.amt = amt,
                      !.st = "SUCCEEDED", !.plan = plan[Owner(o)], !.full = full]
  <2>1. full \in BOOLEAN /\ amt \in Nat
    BY PriceFacts
  <2>2. txn' = [txn EXCEPT ![w] = t] /\ Quiet
    BY <1>5 DEF RefundStart, Quiet
  <2> HIDE DEF full
  <2>3. t \in Txn /\ WellFormed(t)
    <3>1. NoTxn \in Txn /\ plan[Owner(o)] \in UserPlan
      BY <1>0, NoTxnType
    <3>2. t \in Txn
      BY <2>1, <3>1 DEF Txn, OrderStatus
    <3>3. t.pc = "refund_call" /\ t.o = o /\ t.amt = amt
      BY <3>1 DEF Txn
    <3> QED
      BY <3>2, <3>3 DEF WellFormed
  <2> HIDE DEF t
  <2> QED
    BY <2>2, <2>3, Becomes
<1>6. CASE QueryUnpaid(w)
  <2> DEFINE t == [txn[w] EXCEPT !.pc = IF @ = "poll_query" THEN "poll_close" ELSE "create_place"]
  <2>1. t \in Txn /\ WellFormed(t)
    BY <1>0, <1>6 DEF QueryUnpaid, Querying, Txn, WellFormed
  <2>2. txn' = [txn EXCEPT ![w] = t] /\ Quiet
    BY <1>6 DEF QueryUnpaid, Quiet, TypeOK
  <2> HIDE DEF t
  <2> QED
    BY <2>1, <2>2, Becomes
<1>7. CASE QueryPaid(w)
  <2> DEFINE t == [txn[w] EXCEPT !.pc = "settle", !.row = Len(rows[txn[w].o])]
  <2>1. txn[w].o \in Orders
    BY <1>0, <1>7 DEF QueryPaid, Querying, WellFormed
  <2>2. rows[txn[w].o] \in Seq(Row) /\ rows[txn[w].o] # <<>>
    BY <1>0, <1>7, <2>1 DEF QueryPaid, CanSettle
  <2>3. Len(rows[txn[w].o]) \in Nat /\ Len(rows[txn[w].o]) \in DOMAIN rows[txn[w].o]
    BY <2>2
  <2>4. t \in Txn /\ WellFormed(t)
    BY <1>0, <2>1, <2>3 DEF Txn, WellFormed
  <2>5. txn' = [txn EXCEPT ![w] = t] /\ Quiet
    BY <1>7 DEF QueryPaid, Quiet, TypeOK
  <2> HIDE DEF t
  <2> QED
    BY <2>4, <2>5, Becomes
<1>8. CASE QueryRefresh(w)
  <2> DEFINE st == order[txn[w].o].st
             pc == IF txn[w].pc = "poll_query" THEN "poll_close"
                   ELSE IF st = "PENDING" THEN "create_place" ELSE "create_return"
             t == [txn[w] EXCEPT !.st = st, !.pc = pc]
  <2>1. txn[w].o \in Orders
    BY <1>0, <1>8 DEF QueryRefresh, Querying, WellFormed
  <2>2. t \in Txn /\ WellFormed(t)
    <3>1. pc \in {"poll_close", "create_place", "create_return"} /\ st \in OrderStatus
      BY <1>0, <2>1
    <3> HIDE DEF st, pc
    <3>2. txn[w] \in Txn
      BY <1>0
    <3>3. t \in Txn
      BY <3>1, <3>2 DEF Txn
    <3>4. t.pc = pc /\ t.o = txn[w].o
      BY <3>2 DEF Txn
    <3> QED
      BY <2>1, <3>1, <3>3, <3>4 DEF WellFormed
  <2>3. txn' = [txn EXCEPT ![w] = t] /\ Quiet
    BY <1>8 DEF QueryRefresh, Quiet, TypeOK
  <2> HIDE DEF t
  <2> QED
    BY <2>2, <2>3, Becomes
<1>9. ASSUME Leave(w), Quiet PROVE OK
  BY <1>9, NoTxnType, Becomes DEF Leave
<1>10. CASE CallbackOrder(w)
  <2> DEFINE o == txn[w].trade
             t == [txn[w] EXCEPT !.pc = "cb_payment", !.o = o, !.st = order[o].st]
  <2>1. o \in Orders
    BY <1>0, <1>10 DEF CallbackOrder, WellFormed
  <2>2. t \in Txn /\ WellFormed(t)
    BY <1>0, <2>1 DEF Txn, WellFormed
  <2>3. (Leave(w) \/ txn' = [txn EXCEPT ![w] = t]) /\ Quiet
    BY <1>10 DEF CallbackOrder, Quiet, TypeOK
  <2> HIDE DEF t
  <2> QED
    BY <1>9, <2>2, <2>3, Becomes
<1>11. CASE CallbackPayment(w)
  <2> DEFINE o == txn[w].o
             t == [txn[w] EXCEPT !.pc = "settle", !.row = Len(rows[o]), !.plan = plan[Owner(o)]]
  <2>1. o \in Orders
    BY <1>0, <1>11 DEF CallbackPayment, WellFormed
  <2>2. CASE ~CanSettle(o)
    BY <1>9, <1>11, <2>2 DEF CallbackPayment, Quiet
  <2>3. CASE CanSettle(o)
    <3>1. rows[o] \in Seq(Row) /\ rows[o] # <<>>
      BY <1>0, <2>1, <2>3 DEF CanSettle
    <3>2. Len(rows[o]) \in Nat /\ Len(rows[o]) \in DOMAIN rows[o]
      BY <3>1
    <3>3. t \in Txn /\ WellFormed(t)
      BY <1>0, <2>1, <3>2 DEF Txn, WellFormed
    <3>4. txn' = [txn EXCEPT ![w] = t] /\ Quiet
      BY <1>11, <2>3 DEF CallbackPayment, Quiet, TypeOK
    <3> HIDE DEF t
    <3> QED
      BY <3>3, <3>4, Becomes
  <2> QED
    BY <2>2, <2>3
<1>12. CASE CallbackMatch(w)
  <2>1. CASE \E c \in Candidates : Candidates = {c}
    <3> DEFINE c == CHOOSE c \in Candidates : TRUE
               t == [txn[w] EXCEPT !.pc = "settle", !.o = c[1], !.row = c[2],
                        !.st = order[c[1]].st, !.plan = plan[Owner(c[1])]]
    <3>1. c \in Candidates
      BY <2>1
    <3>2. \A d \in Candidates : d[1] \in Orders /\ d[2] \in DOMAIN rows[d[1]]
      BY DEF Candidates
    <3>3. c[1] \in Orders /\ c[2] \in DOMAIN rows[c[1]]
      BY <3>1, <3>2
    <3>4. txn' = [txn EXCEPT ![w] = t] /\ Quiet
      BY <1>12, <2>1 DEF CallbackMatch, Quiet, TypeOK
    <3> HIDE DEF c
    <3>5. c[2] \in Nat
      BY <1>0, <3>3
    <3>6. t \in Txn /\ WellFormed(t)
      BY <1>0, <3>3, <3>5 DEF Txn, WellFormed
    <3> HIDE DEF t
    <3> QED
      BY <3>4, <3>6, Becomes
  <2>2. CASE ~\E c \in Candidates : Candidates = {c}
    BY <1>9, <1>12, <2>2 DEF CallbackMatch, Quiet
  <2> QED
    BY <2>1, <2>2
<1>13. CASE SettleFails(w) \/ RefundRefused(w) \/ Abort(w)
  BY <1>9, <1>13 DEF SettleFails, RefundRefused, Abort, Quiet
<1> QED
  BY <1>1, <1>2, <1>3, <1>4, <1>5, <1>6, <1>7, <1>8, <1>10, <1>11, <1>12, <1>13 DEF Loading

LEMMA ChannelType ==
    ASSUME TypeOK, NEW w \in Workers, ChannelPlace(w) \/ RefundCall(w) PROVE TypeOK' /\ RowsGrow
<1>0. txn[w] \in Txn /\ WellFormed(txn[w])
  BY DEF TypeOK
<1>1. CASE ChannelPlace(w)
  <2>1. txn[w].o \in Orders /\ chan' \in [Orders -> PayTrade]
    BY <1>0, <1>1 DEF ChannelPlace, TypeOK, PayTrade, WellFormed
  <2>2. WorkerStep(w)
    BY <1>0, <1>1 DEF ChannelPlace, WorkerStep, RowsGrow, TypeOK, Txn, WellFormed
  <2> QED
    BY <1>1, <2>1, <2>2, WorkerStepType DEF ChannelPlace, TypeOK, RowsGrow
<1>2. CASE RefundCall(w)
  <2>1. txn[w].o \in Orders /\ txn[w].amt \in 1..Price
    BY <1>0, <1>2 DEF RefundCall, WellFormed
  <2>2. chan' \in [Orders -> PayTrade]
    <3> DEFINE o == txn[w].o  sum == chan[o].refunded + txn[w].amt
    <3>1. chan[o] \in PayTrade /\ chan[o].refunded \in 0..Price
      BY <2>1 DEF TypeOK, PayTrade
    <3>2. sum \in 0..Price
      BY <1>2, <2>1, <3>1, PriceFacts DEF RefundCall
    <3>3. chan' = [chan EXCEPT ![o] = [chan[o] EXCEPT !.refunded = sum]]
      BY <1>2, <2>1 DEF RefundCall, TypeOK
    <3> HIDE DEF sum
    <3>4. [chan[o] EXCEPT !.refunded = sum] \in PayTrade
      BY <3>1, <3>2 DEF PayTrade
    <3> QED
      BY <2>1, <3>3, <3>4 DEF TypeOK
  <2>3. RowsGrow
    BY <1>2 DEF RefundCall, RowsGrow
  <2>4. WorkerStep(w)
    <3>1. CASE txn' = [txn EXCEPT ![w].pc = "refund_commit"]
      BY <1>0, <1>2, <2>1, <3>1 DEF RefundCall, WorkerStep, RowsGrow, TypeOK, Txn, WellFormed
    <3>2. CASE Leave(w)
      BY <2>3, <3>2, LeaveType
    <3> QED
      BY <1>2, <3>1, <3>2 DEF RefundCall
  <2> QED
    BY <1>2, <2>2, <2>3, <2>4, WorkerStepType DEF RefundCall, TypeOK
<1> QED
  BY <1>1, <1>2

(* The steps of the world outside: a payment, and time.                    *)
LEMMA OutsideType ==
    ASSUME TypeOK, (\E o \in Orders : Pay(o)) \/ Tick PROVE TypeOK' /\ RowsGrow
<1>1. \A w \in Workers : WellFormed(txn[w])'
  BY DEF Pay, Tick, TypeOK, WellFormed
<1>2. CASE \E o \in Orders : Pay(o)
  BY <1>1, <1>2, ZenonT(60) DEF Pay, TypeOK, PayTrade, RowsGrow
<1>3. CASE Tick
  BY <1>1, <1>3 DEF Tick, TypeOK, RowsGrow
<1> QED
  BY <1>2, <1>3

LEMMA StepType == ASSUME TypeOK, [Next]_vars PROVE TypeOK' /\ RowsGrow
<1>1. ASSUME NEW w \in Workers, Request(w) \/ Step(w) \/ Abort(w)
      PROVE  TypeOK' /\ RowsGrow
  <2>1. CASE Loading(w)
    BY <2>1, LoadingType
  <2>2. CASE ChannelPlace(w) \/ RefundCall(w)
    BY <2>2, ChannelType
  <2>3. CASE CreateCommit(w)
    BY <2>3, CreateCommitType
  <2>4. CASE CreateReturn(w) \/ PollClose(w)
    BY <2>4, CloseType DEF CreateReturn, PollClose
  <2>5. CASE Settle(w)
    BY <2>5, SettleType
  <2>6. CASE RefundCommit(w)
    BY <2>6, RefundCommitType
  <2> QED
    BY <1>1, <2>1, <2>2, <2>3, <2>4, <2>5, <2>6 DEF Request, Step, Loading
<1>2. CASE UNCHANGED vars
  BY <1>2 DEF vars, TypeOK, WellFormed, RowsGrow
<1> QED
  BY <1>1, <1>2, OutsideType DEF Next

LEMMA InitType == Init => TypeOK
BY NoTxnType, PriceFacts DEF Init, TypeOK, Order, PayTrade, UserPlan, NoPlan, WellFormed, NoTxn

(* Every table and every request in progress keeps its type: in particular *)
(* no request ever uses an order, a payment row or an amount it has not    *)
(* loaded, however requests overlap and wherever they are cut off.         *)
THEOREM TypeCorrect == Spec => []TypeOK
<1>1. TypeOK /\ [Next]_vars => TypeOK'
  BY StepType
<1> QED
  BY InitType, <1>1, PTL DEF Spec

-----------------------------------------------------------------------------
(* Safety when every callback names its order.  The properties are not     *)
(* inductive without RequestsOK, which says what the requests in progress  *)
(* have established and no other request can take back.                    *)

AllEcho == Echoes \subseteq {TRUE}

SafeInv == SettledOnlyIfPaid /\ SettledHasReceipt /\ ProIsPaid /\ RequestsOK

(* What no step takes back: a payment at the channel, a receipt.           *)
PaidStays == \A o \in Orders : chan[o].paid => chan'[o].paid
ReceiptStays ==
    \A o \in Orders : \A i \in DOMAIN rows[o] :
        rows[o][i].st = "SUCCEEDED" /\ rows[o][i].trade = o =>
            i \in DOMAIN rows'[o] /\ rows'[o][i].st = "SUCCEEDED" /\ rows'[o][i].trade = o

(* What a step may add: only an order with a paid trade and a receipt      *)
(* becomes settled, only the owner of a paid order becomes pro.            *)
SettledAdded == \A o \in Orders : HasSettled(o)' => HasSettled(o) \/ (chan[o].paid /\ Receipt(o)')
ProAdded ==
    \A u \in Users : plan'[u].tier = "pro" =>
        plan[u].tier = "pro" \/ \E o \in Orders : Owner(o) = u /\ chan[o].paid

Progress == PaidStays /\ ReceiptStays /\ SettledAdded /\ ProAdded

LEMMA ReceiptKept ==
    ASSUME ReceiptStays, NEW o \in Orders, Receipt(o) PROVE Receipt(o)'
BY DEF ReceiptStays, Receipt

(* With that, the invariant follows but for the request of the step.       *)
LEMMA SafeFromProgress ==
    ASSUME TypeOK, SafeInv, Progress,
           \A v \in Workers : txn'[v] = txn[v] \/ RequestOK(txn[v])'
    PROVE  SafeInv'
<1>1. SettledOnlyIfPaid' /\ SettledHasReceipt'
  BY ReceiptKept DEF SafeInv, Progress, PaidStays, SettledAdded, SettledOnlyIfPaid, SettledHasReceipt
<1>2. ProIsPaid'
  BY DEF SafeInv, Progress, PaidStays, ProAdded, ProIsPaid, Owner
<1>3. ASSUME NEW v \in Workers, txn'[v] = txn[v] PROVE RequestOK(txn[v])'
  <2>1. RequestOK(txn[v]) /\ WellFormed(txn[v])
    BY DEF SafeInv, RequestsOK, TypeOK
  <2> QED
    BY <1>3, <2>1, ReceiptKept DEF Progress, PaidStays, RequestOK, WellFormed
<1> QED
  BY <1>1, <1>2, <1>3 DEF SafeInv, RequestsOK

LEMMA LeaveRequestOK ==
    ASSUME TypeOK, NEW w \in Workers, Leave(w)
    PROVE  \A v \in Workers : txn'[v] = txn[v] \/ RequestOK(txn[v])'
BY DEF Leave, TypeOK, RequestOK, NoTxn

LEMMA QuietProgress == ASSUME TypeOK, Quiet PROVE Progress
BY DEF Quiet, Progress, PaidStays, ReceiptStays, SettledAdded, ProAdded, HasSettled

LEMMA BecomesSafe ==
    ASSUME TypeOK, SafeInv, NEW w \in Workers, NEW t, RequestOK(t), Quiet,
           txn' = [txn EXCEPT ![w] = t]
    PROVE  SafeInv'
<1>1. txn'[w] = t /\ \A v \in Workers \ {w} : txn'[v] = txn[v]
  BY DEF TypeOK
<1>2. RequestOK(txn[w])'
  BY <1>1 DEF RequestOK, Quiet, Receipt
<1> QED
  BY <1>1, <1>2, QuietProgress, SafeFromProgress

(* Closing orders and their pending rows settles nothing.                  *)
LEMMA CloseSafe ==
    ASSUME TypeOK, SafeInv, NEW w \in Workers, NEW S,
           order' = CloseOrders(S), rows' = ClosePayments(S), Leave(w),
           UNCHANGED <<refunded, plan, chan, now>>
    PROVE  SafeInv'
<1>1. PaidStays /\ ProAdded
  BY DEF PaidStays, ProAdded
<1>2. ReceiptStays
  BY ClosePaymentsType DEF ReceiptStays
<1>3. SettledAdded
  BY DEF SettledAdded, HasSettled, CloseOrders, TypeOK, Order
<1> QED
  BY <1>1, <1>2, <1>3, LeaveRequestOK, SafeFromProgress DEF Progress

LEMMA CreateCommitSafe ==
    ASSUME TypeOK, SafeInv, NEW w \in Workers, CreateCommit(w) PROVE SafeInv'
<1> DEFINE t == txn[w]  C == ClosePayments(t.closed)
<1>0. t.o \in Orders
  BY DEF TypeOK, WellFormed, CreateCommit
<1>1. PaidStays /\ ProAdded
  BY DEF PaidStays, ProAdded, CreateCommit
<1>2. ReceiptStays
  <2>1. /\ C \in [Orders -> Seq(Row)]
        /\ \A o \in Orders : \A i \in DOMAIN rows[o] :
             /\ i \in DOMAIN C[o] /\ C[o][i].trade = rows[o][i].trade
             /\ rows[o][i].st = "SUCCEEDED" => C[o][i].st = "SUCCEEDED"
    BY ClosePaymentsType
  <2>2. rows' = [C EXCEPT ![t.o] = Append(@, PendingRow)]
    BY DEF CreateCommit
  <2> HIDE DEF C
  <2>3. \A o \in Orders : \A i \in DOMAIN C[o] : i \in DOMAIN rows'[o] /\ rows'[o][i] = C[o][i]
    BY <1>0, <2>1, <2>2, PendingRowType, AppendType
  <2> QED
    BY <2>1, <2>3 DEF ReceiptStays
<1>3. SettledAdded
  <2>1. order' = [CloseOrders(t.closed) EXCEPT ![t.o] =
                    IF t.new THEN [st |-> "PENDING", created |-> now] ELSE @]
    BY DEF CreateCommit
  <2>2. \A o \in Orders : HasSettled(o)' => HasSettled(o)
    BY <1>0, <2>1 DEF HasSettled, CloseOrders, TypeOK, Order
  <2> QED
    BY <2>2 DEF SettledAdded
<1> QED
  BY <1>1, <1>2, <1>3, LeaveRequestOK, SafeFromProgress DEF Progress, CreateCommit

LEMMA SettleSafe ==
    ASSUME TypeOK, SafeInv, NEW w \in Workers, Settle(w) PROVE SafeInv'
<1> DEFINE t == txn[w]  u == Owner(t.o)  C == ClosePayments(t.closed)
<1>0. /\ t.o \in Orders /\ t \in Txn /\ t.row \in DOMAIN rows[t.o] /\ u \in Users
      /\ t.trade = t.o /\ chan[t.o].paid
  BY OwnerIsUser DEF TypeOK, WellFormed, SafeInv, RequestsOK, RequestOK, Settle
<1>1. /\ C \in [Orders -> Seq(Row)]
      /\ \A o \in Orders : \A i \in DOMAIN rows[o] :
           /\ i \in DOMAIN C[o] /\ C[o][i].trade = rows[o][i].trade
           /\ rows[o][i].st = "SUCCEEDED" => C[o][i].st = "SUCCEEDED"
  BY ClosePaymentsType
<1> DEFINE q == [C[t.o][t.row] EXCEPT !.st = "SUCCEEDED", !.trade = t.trade]
<1>2. rows' = [C EXCEPT ![t.o] = [C[t.o] EXCEPT ![t.row] = q]]
  BY <1>0, <1>1 DEF Settle
<1>3. q.st = "SUCCEEDED" /\ q.trade = t.o
  <2>1. C[t.o][t.row] \in Row
    BY <1>0, <1>1
  <2> QED
    BY <1>0, <2>1 DEF Row
<1> PICK o \in Orders : o = t.o
  BY <1>0
<1>4. ReceiptStays /\ Receipt(o)'
  <2> HIDE DEF C, q
  <2>1. /\ t.row \in DOMAIN rows'[t.o] /\ rows'[t.o][t.row] = q
        /\ DOMAIN rows'[t.o] = DOMAIN C[t.o]
        /\ \A i \in DOMAIN C[t.o] : i # t.row => rows'[t.o][i] = C[t.o][i]
        /\ \A p \in Orders \ {t.o} : rows'[p] = C[p]
    BY <1>0, <1>1, <1>2
  <2>2. Receipt(o)'
    BY <1>3, <2>1 DEF Receipt
  <2>3. ASSUME NEW p \in Orders, NEW i \in DOMAIN rows[p],
               rows[p][i].st = "SUCCEEDED", rows[p][i].trade = p
        PROVE  i \in DOMAIN rows'[p] /\ rows'[p][i].st = "SUCCEEDED" /\ rows'[p][i].trade = p
    <3>1. i \in DOMAIN C[p] /\ C[p][i].st = "SUCCEEDED" /\ C[p][i].trade = p
      BY <1>1, <2>3
    <3>2. CASE p # o
      BY <2>1, <3>1, <3>2
    <3>3. CASE p = o /\ i = t.row
      BY <1>3, <2>1, <3>3
    <3>4. CASE p = o /\ i # t.row
      BY <2>1, <3>1, <3>4
    <3> QED
      BY <3>2, <3>3, <3>4
  <2> QED
    BY <2>2, <2>3 DEF ReceiptStays
<1>5. SettledAdded
  <2>1. \A p \in Orders \ {o} : HasSettled(p)' => HasSettled(p)
    BY <1>0 DEF Settle, HasSettled, CloseOrders, TypeOK, Order
  <2> QED
    BY <1>0, <1>4, <2>1 DEF SettledAdded
<1>6. PaidStays /\ ProAdded
  <2>1. plan' = [plan EXCEPT ![u] = ActivatePlan(plan[u], LoadedPlan(t))]
    BY <1>0 DEF Settle, TypeOK
  <2>2. \A v \in Users \ {u} : plan'[v] = plan[v]
    BY <1>0, <2>1 DEF TypeOK
  <2> QED
    BY <1>0, <2>2 DEF PaidStays, ProAdded, Settle
<1> QED
  BY <1>4, <1>5, <1>6, LeaveRequestOK, SafeFromProgress DEF Progress, Settle

LEMMA RefundCommitSafe ==
    ASSUME TypeOK, SafeInv, NEW w \in Workers, RefundCommit(w) PROVE SafeInv'
<1> DEFINE t == txn[w]  u == Owner(t.o)
<1>0. /\ t.o \in Orders /\ t \in Txn /\ t.amt \in 1..Price /\ u \in Users
      /\ chan[t.o].paid /\ Receipt(t.o)
  BY OwnerIsUser DEF TypeOK, WellFormed, SafeInv, RequestsOK, RequestOK, RefundCommit
<1>1. ReceiptStays
  <2>1. rows' = [rows EXCEPT ![t.o] = Append(@, RefundRow(t.amt))]
    BY DEF RefundCommit
  <2>2. \A o \in Orders : \A i \in DOMAIN rows[o] : i \in DOMAIN rows'[o] /\ rows'[o][i] = rows[o][i]
    BY <1>0, <2>1, RefundRowType, AppendType DEF TypeOK
  <2> QED
    BY <2>2 DEF ReceiptStays
<1>2. SettledAdded
  <2>1. \A o \in Orders \ {t.o} : order'[o] = order[o]
    BY <1>0 DEF RefundCommit, TypeOK
  <2> QED
    BY <1>0, <1>1, <2>1, ReceiptKept DEF SettledAdded, HasSettled
<1>3. PaidStays /\ ProAdded
  <2>1. plan[u] \in UserPlan /\ t.plan \in UserPlan /\ now \in Nat
    BY <1>0 DEF TypeOK, Txn
  <2>2. RevokePlan(plan[u], t.plan).tier = "pro" => plan[u].tier = "pro"
    BY <2>1, PlanTypes
  <2>3. plan' = [plan EXCEPT ![u] = IF t.full THEN RevokePlan(plan[u], t.plan) ELSE plan[u]]
    BY <1>0 DEF RefundCommit, TypeOK
  <2>4. \A v \in Users : plan'[v].tier = "pro" => plan[v].tier = "pro"
    BY <1>0, <2>2, <2>3 DEF TypeOK
  <2> QED
    BY <2>4 DEF PaidStays, ProAdded, RefundCommit
<1> QED
  BY <1>1, <1>2, <1>3, LeaveRequestOK, SafeFromProgress DEF Progress, RefundCommit

LEMMA LoadingSafe ==
    ASSUME AllEcho, TypeOK, SafeInv, NEW w \in Workers, Loading(w) PROVE SafeInv'
<1>0. txn[w] \in Txn /\ WellFormed(txn[w]) /\ RequestOK(txn[w])
  BY DEF TypeOK, SafeInv, RequestsOK
<1>1. ASSUME NEW u \in Users, NEW p \in Products, CreateReuse(w, u, p) PROVE SafeInv'
  <2> PICK o \in Fresh(u, p) :
        txn' = [txn EXCEPT ![w] = [NoTxn EXCEPT !.pc = "create_query", !.o = o, !.trade = o,
                   !.st = "PENDING", !.plan = plan[u], !.closed = Stale(u, p)]]
    BY <1>1 DEF CreateReuse
  <2> DEFINE t == [NoTxn EXCEPT !.pc = "create_query", !.o = o, !.trade = o,
                      !.st = "PENDING", !.plan = plan[u], !.closed = Stale(u, p)]
  <2>1. RequestOK(t) /\ Quiet /\ txn' = [txn EXCEPT ![w] = t]
    BY <1>1 DEF NoTxn, RequestOK, CreateReuse, Quiet
  <2> HIDE DEF t
  <2> QED
    BY <2>1, BecomesSafe
<1>2. ASSUME NEW u \in Users, NEW p \in Products, CreateNew(w, u, p) PROVE SafeInv'
  <2> PICK o \in OrdersFor(u, p) :
        txn' = [txn EXCEPT ![w] = [NoTxn EXCEPT !.pc = "create_place", !.o = o,
                   !.new = TRUE, !.closed = Stale(u, p)]]
    BY <1>2 DEF CreateNew
  <2> DEFINE t == [NoTxn EXCEPT !.pc = "create_place", !.o = o,
                      !.new = TRUE, !.closed = Stale(u, p)]
  <2>1. RequestOK(t) /\ Quiet /\ txn' = [txn EXCEPT ![w] = t]
    BY <1>2 DEF NoTxn, RequestOK, CreateNew, Quiet
  <2> HIDE DEF t
  <2> QED
    BY <2>1, BecomesSafe
<1>3. ASSUME NEW o \in Orders, PollOrder(w, o) PROVE SafeInv'
  <2> DEFINE t == [NoTxn EXCEPT !.pc = "poll_query", !.o = o, !.trade = o,
                      !.st = "PENDING", !.plan = plan[Owner(o)]]
  <2>1. RequestOK(t) /\ Quiet /\ txn' = [txn EXCEPT ![w] = t]
    BY <1>3 DEF NoTxn, RequestOK, PollOrder, Quiet
  <2> HIDE DEF t
  <2> QED
    BY <2>1, BecomesSafe
<1>4. ASSUME NEW o \in Orders, NEW echo \in Echoes, CallbackStart(w, o, echo) PROVE SafeInv'
  <2> DEFINE t == [NoTxn EXCEPT !.trade = o, !.pc = IF echo THEN "cb_order" ELSE "cb_match"]
  <2>1. RequestOK(t) /\ Quiet /\ txn' = [txn EXCEPT ![w] = t]
    BY <1>4 DEF AllEcho, NoTxn, RequestOK, CallbackStart, Quiet
  <2> HIDE DEF t
  <2> QED
    BY <2>1, BecomesSafe
<1>5. ASSUME NEW o \in Orders, NEW amt \in 1..Price, RefundStart(w, o, amt) PROVE SafeInv'
  <2> DEFINE full == (amt + refunded[o] >= Price)
             t == [NoTxn EXCEPT !.pc = "refund_call", !.o = o, !.amt = amt,
                      !.st = "SUCCEEDED", !.plan = plan[Owner(o)], !.full = full]
  <2>1. chan[o].paid /\ Receipt(o)
    BY <1>5 DEF RefundStart, SafeInv, SettledOnlyIfPaid, SettledHasReceipt, HasSettled
  <2>2. txn' = [txn EXCEPT ![w] = t] /\ Quiet
    BY <1>5 DEF RefundStart, Quiet
  <2> HIDE DEF full
  <2>3. RequestOK(t)
    BY <2>1 DEF NoTxn, RequestOK
  <2> HIDE DEF t
  <2> QED
    BY <2>2, <2>3, BecomesSafe
<1>6. CASE QueryUnpaid(w)
  <2> DEFINE t == [txn[w] EXCEPT !.pc = IF @ = "poll_query" THEN "poll_close" ELSE "create_place"]
  <2>1. RequestOK(t)
    BY <1>0 DEF Txn, RequestOK
  <2>2. txn' = [txn EXCEPT ![w] = t] /\ Quiet
    BY <1>6 DEF QueryUnpaid, Quiet, TypeOK
  <2> HIDE DEF t
  <2> QED
    BY <2>1, <2>2, BecomesSafe
<1>7. CASE QueryPaid(w)
  <2> DEFINE t == [txn[w] EXCEPT !.pc = "settle", !.row = Len(rows[txn[w].o])]
  <2>1. RequestOK(t)
    BY <1>0, <1>7 DEF QueryPaid, Querying, Txn, RequestOK
  <2>2. txn' = [txn EXCEPT ![w] = t] /\ Quiet
    BY <1>7 DEF QueryPaid, Quiet, TypeOK
  <2> HIDE DEF t
  <2> QED
    BY <2>1, <2>2, BecomesSafe
<1>8. CASE QueryRefresh(w)
  <2> DEFINE st == order[txn[w].o].st
             pc == IF txn[w].pc = "poll_query" THEN "poll_close"
                   ELSE IF st = "PENDING" THEN "create_place" ELSE "create_return"
             t == [txn[w] EXCEPT !.st = st, !.pc = pc]
  <2>1. RequestOK(t)
    BY <1>0 DEF Txn, RequestOK
  <2>2. txn' = [txn EXCEPT ![w] = t] /\ Quiet
    BY <1>8 DEF QueryRefresh, Quiet, TypeOK
  <2> HIDE DEF t
  <2> QED
    BY <2>1, <2>2, BecomesSafe
<1>9. ASSUME Leave(w), Quiet PROVE SafeInv'
  BY <1>9, LeaveRequestOK, QuietProgress, SafeFromProgress
<1>10. CASE CallbackOrder(w)
  <2> DEFINE o == txn[w].trade
             t == [txn[w] EXCEPT !.pc = "cb_payment", !.o = o, !.st = order[o].st]
  <2>1. RequestOK(t)
    BY <1>0, <1>10 DEF CallbackOrder, Txn, RequestOK
  <2>2. (Leave(w) \/ txn' = [txn EXCEPT ![w] = t]) /\ Quiet
    BY <1>10 DEF CallbackOrder, Quiet, TypeOK
  <2> HIDE DEF t
  <2> QED
    BY <1>9, <2>1, <2>2, BecomesSafe
<1>11. CASE CallbackPayment(w)
  <2> DEFINE o == txn[w].o
             t == [txn[w] EXCEPT !.pc = "settle", !.row = Len(rows[o]), !.plan = plan[Owner(o)]]
  <2>1. RequestOK(t)
    BY <1>0, <1>11 DEF CallbackPayment, Txn, RequestOK
  <2>2. (Leave(w) \/ txn' = [txn EXCEPT ![w] = t]) /\ Quiet
    BY <1>11 DEF CallbackPayment, Quiet, TypeOK
  <2> HIDE DEF t
  <2> QED
    BY <1>9, <2>1, <2>2, BecomesSafe
<1>12. CASE CallbackMatch(w)
  BY <1>0, <1>12 DEF CallbackMatch, RequestOK
<1>13. CASE SettleFails(w) \/ RefundRefused(w) \/ Abort(w)
  BY <1>9, <1>13 DEF SettleFails, RefundRefused, Abort, Quiet
<1> QED
  BY <1>1, <1>2, <1>3, <1>4, <1>5, <1>6, <1>7, <1>8, <1>10, <1>11, <1>12, <1>13 DEF Loading

(* Steps of the channel and of time take no payment back.                  *)
LEMMA ChannelSafe ==
    ASSUME TypeOK, SafeInv,
           \/ \E w \in Workers : ChannelPlace(w) \/ RefundCall(w)
           \/ (\E o \in Orders : Pay(o)) \/ Tick
    PROVE  SafeInv'
<1>1. PaidStays
  <2>1. \A o \in Orders : chan[o] \in PayTrade
    BY DEF TypeOK
  <2>2. ASSUME NEW w \in Workers, ChannelPlace(w) PROVE PaidStays
    BY <2>1, <2>2 DEF PaidStays, ChannelPlace, TypeOK, PayTrade
  <2>3. ASSUME NEW w \in Workers, RefundCall(w) PROVE PaidStays
    BY <2>1, <2>3 DEF PaidStays, RefundCall, TypeOK, PayTrade
  <2>4. ASSUME NEW o \in Orders, Pay(o) PROVE PaidStays
    BY <2>1, <2>4 DEF PaidStays, Pay, TypeOK, PayTrade
  <2>5. CASE Tick
    BY <2>5 DEF PaidStays, Tick
  <2> QED
    BY <2>2, <2>3, <2>4, <2>5
<1>2. UNCHANGED <<order, rows, plan>>
  BY DEF ChannelPlace, RefundCall, Pay, Tick
<1>3. Progress
  BY <1>1, <1>2 DEF Progress, ReceiptStays, SettledAdded, ProAdded, HasSettled
<1>4. \A v \in Workers : txn'[v] = txn[v] \/ RequestOK(txn[v])'
  <2>1. ASSUME NEW w \in Workers, ChannelPlace(w)
        PROVE  \A v \in Workers : txn'[v] = txn[v] \/ RequestOK(txn[v])'
    BY <2>1 DEF ChannelPlace, TypeOK, Txn, RequestOK
  <2>2. ASSUME NEW w \in Workers, RefundCall(w)
        PROVE  \A v \in Workers : txn'[v] = txn[v] \/ RequestOK(txn[v])'
    <3> PICK o \in Orders : o = txn[w].o
      BY <2>2 DEF RefundCall, TypeOK, WellFormed
    <3>1. chan[o].paid /\ Receipt(o)
      BY <2>2 DEF RefundCall, SafeInv, RequestsOK, RequestOK
    <3>2. chan'[o].paid /\ Receipt(o)'
      BY <1>1, <1>2, <3>1 DEF PaidStays, Receipt
    <3>3. CASE txn' = [txn EXCEPT ![w].pc = "refund_commit"]
      <4>1. txn'[w].pc = "refund_commit" /\ txn'[w].o = o
        BY <3>3 DEF TypeOK, Txn
      <4>2. RequestOK(txn[w])'
        BY <3>2, <4>1, <1>2 DEF RequestOK, Receipt
      <4> QED
        BY <3>3, <4>2 DEF TypeOK
    <3> QED
      BY <2>2, <3>3, LeaveRequestOK DEF RefundCall
  <2>3. ASSUME (\E o \in Orders : Pay(o)) \/ Tick PROVE txn' = txn
    BY <2>3 DEF Pay, Tick
  <2> QED
    BY <2>1, <2>2, <2>3
<1> QED
  BY <1>3, <1>4, SafeFromProgress

LEMMA StepSafe == ASSUME AllEcho, TypeOK, SafeInv, [Next]_vars PROVE SafeInv'
<1>1. ASSUME NEW w \in Workers, Request(w) \/ Step(w) \/ Abort(w) PROVE SafeInv'
  <2>1. CASE Loading(w)
    BY <2>1, LoadingSafe
  <2>2. CASE ChannelPlace(w) \/ RefundCall(w)
    BY <2>2, ChannelSafe
  <2>3. CASE CreateCommit(w)
    BY <2>3, CreateCommitSafe
  <2>4. CASE CreateReturn(w) \/ PollClose(w)
    BY <2>4, CloseSafe DEF CreateReturn, PollClose
  <2>5. CASE Settle(w)
    BY <2>5, SettleSafe
  <2>6. CASE RefundCommit(w)
    BY <2>6, RefundCommitSafe
  <2> QED
    BY <1>1, <2>1, <2>2, <2>3, <2>4, <2>5, <2>6 DEF Request, Step, Loading
<1>2. CASE UNCHANGED vars
  <2>1. Progress /\ \A v \in Workers : txn'[v] = txn[v]
    BY <1>2, QuietProgress DEF vars, Quiet
  <2> QED
    BY <2>1, SafeFromProgress
<1> QED
  BY <1>1, <1>2, ChannelSafe DEF Next

LEMMA InitSafe == Init => SafeInv
BY DEF Init, SafeInv, SettledOnlyIfPaid, SettledHasReceipt, HasSettled, ProIsPaid, NoPlan,
       RequestsOK, RequestOK, NoTxn

LEMMA Safety == ASSUME AllEcho PROVE Spec => []SafeInv
<1>1. TypeOK /\ SafeInv /\ [Next]_vars => SafeInv'
  BY StepSafe
<1> QED
  BY InitSafe, TypeCorrect, <1>1, PTL DEF Spec

(* However many requests overlap, crash or are repeated: an order counts   *)
(* as paid only if its own trade was paid at the channel.                  *)
THEOREM PaidOrders == ASSUME AllEcho PROVE Spec => []SettledOnlyIfPaid
BY Safety, PTL DEF SafeInv

(* Every settled order has a SUCCEEDED row with its trade number: what the *)
(* duplicate check of _mark_paid needs is there whenever it is needed.     *)
THEOREM Receipts == ASSUME AllEcho PROVE Spec => []SettledHasReceipt
BY Safety, PTL DEF SafeInv

(* Nobody is pro whose orders were never paid.                             *)
THEOREM ProPlans == ASSUME AllEcho PROVE Spec => []ProIsPaid
BY Safety, PTL DEF SafeInv

(* The request that is about to settle an order does so for its own trade. *)
THEOREM Requests == ASSUME AllEcho PROVE Spec => []RequestsOK
BY Safety, PTL DEF SafeInv

-----------------------------------------------------------------------------
(* Refunds, whatever requests overlap.  The money the channel has returned *)
(* for requests that have not committed yet is still owed to the table:    *)
(* one post for each unit of it, so that no sum has to be formed.          *)

Owed(o) == {e \in Workers \X (1..Price) : /\ txn[e[1]].pc = "refund_commit"
                                          /\ txn[e[1]].o = o
                                          /\ e[2] <= txn[e[1]].amt}

(* A request that makes a refund full knows that, with its own amount, the *)
(* channel has returned everything.                                        *)
FullOK(t) ==
    /\ t.pc = "refund_call" /\ t.full => chan[t.o].refunded + t.amt >= Price
    /\ t.pc = "refund_commit" /\ t.full => chan[t.o].refunded >= Price

OwedOK(o) == /\ IsFiniteSet(Owed(o))
             /\ refunded[o] + Cardinality(Owed(o)) <= chan[o].refunded

RefundInv ==
    /\ \A o \in Orders : OwedOK(o) /\ (order[o].st = "REFUNDED" => chan[o].refunded = Price)
    /\ \A w \in Workers : FullOK(txn[w])

SumBacked == \A o \in Orders : refunded[o] <= chan[o].refunded

LEMMA RefundInvGives == ASSUME TypeOK, RefundInv PROVE SumBacked
<1>1. ASSUME NEW o \in Orders PROVE refunded[o] <= chan[o].refunded
  <2>1. Cardinality(Owed(o)) \in Nat
    BY FS_CardinalityType DEF RefundInv, OwedOK
  <2>2. refunded[o] \in Int /\ chan[o].refunded \in 0..Price
    BY DEF TypeOK, PayTrade
  <2> QED
    BY <2>1, <2>2, PriceFacts DEF RefundInv, OwedOK
<1> QED
  BY <1>1 DEF SumBacked

(* Nothing new is owed by a step after which its request has nothing left  *)
(* to commit.                                                              *)
LEMMA OwedShrinks ==
    ASSUME TypeOK, NEW w \in Workers, txn' = [txn EXCEPT ![w] = txn'[w]],
           txn'[w].pc # "refund_commit", NEW o \in Orders, OwedOK(o)
    PROVE  /\ IsFiniteSet(Owed(o)') /\ Cardinality(Owed(o)') \in Nat /\ Cardinality(Owed(o)) \in Nat
           /\ Cardinality(Owed(o)') <= Cardinality(Owed(o))
<1>1. \A v \in Workers \ {w} : txn'[v] = txn[v]
  BY DEF TypeOK
<1>2. Owed(o)' \in SUBSET Owed(o)
  BY <1>1 DEF Owed
<1> QED
  BY <1>2, FS_Subset, FS_CardinalityType DEF OwedOK

(* So the invariant survives every step that leaves the channel alone and  *)
(* adds nothing to the refunds on record.                                  *)
LEMMA RefundsKept ==
    ASSUME TypeOK, RefundInv, NEW w \in Workers, txn' = [txn EXCEPT ![w] = txn'[w]],
           txn'[w].pc # "refund_commit", FullOK(txn[w])',
           \A o \in Orders : /\ chan'[o].refunded = chan[o].refunded
                             /\ refunded'[o] \in Int /\ refunded'[o] <= refunded[o]
                             /\ order'[o].st = "REFUNDED" => order[o].st = "REFUNDED"
    PROVE  RefundInv'
<1>1. ASSUME NEW o \in Orders
      PROVE  OwedOK(o)' /\ (order'[o].st = "REFUNDED" => chan'[o].refunded = Price)
  <2>1. /\ IsFiniteSet(Owed(o)') /\ Cardinality(Owed(o)') \in Nat /\ Cardinality(Owed(o)) \in Nat
        /\ Cardinality(Owed(o)') <= Cardinality(Owed(o))
    BY OwedShrinks DEF RefundInv
  <2>2. refunded[o] \in Int /\ refunded'[o] \in Int /\ chan[o].refunded \in Int
    BY PriceFacts DEF TypeOK, PayTrade
  <2>3. refunded[o] + Cardinality(Owed(o)) <= chan[o].refunded
    BY DEF RefundInv, OwedOK
  <2> QED
    BY <2>1, <2>2, <2>3 DEF RefundInv, OwedOK
<1>2. ASSUME NEW v \in Workers PROVE FullOK(txn[v])'
  <2>1. CASE v = w
    BY <2>1
  <2>2. CASE v # w
    <3>1. txn'[v] = txn[v] /\ FullOK(txn[v]) /\ WellFormed(txn[v])
      BY <2>2 DEF TypeOK, RefundInv
    <3> QED
      BY <3>1 DEF FullOK, WellFormed
  <2> QED
    BY <2>1, <2>2
<1> QED
  BY <1>1, <1>2 DEF RefundInv

LEMMA LeaveFull ==
    ASSUME TypeOK, NEW w \in Workers, Leave(w)
    PROVE  /\ txn' = [txn EXCEPT ![w] = txn'[w]] /\ txn'[w].pc # "refund_commit"
           /\ FullOK(txn[w])'
BY DEF Leave, TypeOK, NoTxn, FullOK


(* A request that only loads owes nothing, and a refund that starts knows  *)
(* whether it is full from what is on record, which the channel has        *)
(* returned already.                                                       *)
LEMMA LoadingRefunds ==
    ASSUME TypeOK, RefundInv, NEW w \in Workers, Loading(w) PROVE RefundInv'
<1>1. UNCHANGED <<order, refunded, chan>> /\ txn' = [txn EXCEPT ![w] = txn'[w]]
  BY DEF Loading, CreateReuse, CreateNew, PollOrder, CallbackStart, RefundStart, QueryUnpaid,
         QueryPaid, QueryRefresh, CallbackOrder, CallbackPayment, CallbackMatch, SettleFails,
         RefundRefused, Abort, Leave, TypeOK
<1>2. txn'[w].pc # "refund_commit" /\ FullOK(txn[w])'
  <2>1. ASSUME NEW o \in Orders, NEW amt \in 1..Price, RefundStart(w, o, amt)
        PROVE  txn'[w].pc = "refund_call" /\ FullOK(txn[w])'
    <3> DEFINE full == (amt + refunded[o] >= Price)
               t == [NoTxn EXCEPT !.pc = "refund_call", !.o = o, !.amt = amt,
                      !.st = "SUCCEEDED", !.plan = plan[Owner(o)], !.full = full]
    <3>1. txn'[w] = t
      BY <2>1 DEF RefundStart, TypeOK
    <3>2. refunded[o] <= chan[o].refunded
      BY RefundInvGives DEF SumBacked
    <3>3. amt \in Nat /\ refunded[o] \in Int /\ chan[o].refunded \in Int
      BY PriceFacts DEF TypeOK, PayTrade
    <3>4. full => chan[o].refunded + amt >= Price
      BY <3>2, <3>3, PriceFacts
    <3> HIDE DEF full
    <3>5. t.pc = "refund_call" /\ t.o = o /\ t.amt = amt /\ t.full = full
      BY DEF NoTxn
    <3> HIDE DEF t
    <3>6. txn'[w].pc = "refund_call" /\ txn'[w].o = o /\ txn'[w].amt = amt /\ (txn'[w].full <=> full)
      BY <3>1, <3>5
    <3> QED
      BY <1>1, <3>4, <3>6 DEF FullOK
  <2>2. ASSUME txn'[w].pc \notin {"refund_call", "refund_commit"}
        PROVE  txn'[w].pc # "refund_commit" /\ FullOK(txn[w])'
    BY <2>2 DEF FullOK
  <2>3. CASE SettleFails(w) \/ RefundRefused(w) \/ Abort(w)
    BY <2>3, LeaveFull DEF SettleFails, RefundRefused, Abort
  <2>4. CASE \/ \E u \in Users, p \in Products : CreateReuse(w, u, p) \/ CreateNew(w, u, p)
             \/ \E o \in Orders : PollOrder(w, o)
             \/ \E t \in Orders, echo \in Echoes : CallbackStart(w, t, echo)
    <3>1. ASSUME NEW u \in Users, NEW p \in Products, CreateReuse(w, u, p)
          PROVE  txn'[w].pc = "create_query"
      BY <3>1 DEF CreateReuse, TypeOK, NoTxn
    <3>2. ASSUME NEW u \in Users, NEW p \in Products, CreateNew(w, u, p)
          PROVE  txn'[w].pc = "create_place"
      BY <3>2 DEF CreateNew, TypeOK, NoTxn
    <3>3. ASSUME NEW o \in Orders, PollOrder(w, o) PROVE txn'[w].pc = "poll_query"
      BY <3>3 DEF PollOrder, TypeOK, NoTxn
    <3>4. ASSUME NEW t \in Orders, NEW echo \in Echoes, CallbackStart(w, t, echo)
          PROVE  txn'[w].pc \in {"cb_order", "cb_match"}
      BY <3>4 DEF CallbackStart, TypeOK, NoTxn
    <3> QED
      BY <2>2, <2>4, <3>1, <3>2, <3>3, <3>4
  <2>5. CASE QueryUnpaid(w) \/ QueryPaid(w) \/ QueryRefresh(w)
    BY <2>2, <2>5 DEF QueryUnpaid, QueryPaid, QueryRefresh, TypeOK, Txn
  <2>6. CASE CallbackOrder(w) \/ CallbackPayment(w) \/ CallbackMatch(w)
    <3>1. CASE CallbackOrder(w)
      BY <2>2, <3>1, LeaveFull DEF CallbackOrder, TypeOK, Txn
    <3>2. CASE CallbackPayment(w)
      BY <2>2, <3>2, LeaveFull DEF CallbackPayment, TypeOK, Txn
    <3>3. CASE CallbackMatch(w)
      <4>1. Leave(w) \/ \E c : txn' = [txn EXCEPT ![w].pc = "settle", ![w].o = c[1],
                 ![w].row = c[2], ![w].st = order[c[1]].st, ![w].plan = plan[Owner(c[1])]]
        BY <3>3 DEF CallbackMatch
      <4>2. ASSUME NEW c, txn' = [txn EXCEPT ![w].pc = "settle", ![w].o = c[1],
                 ![w].row = c[2], ![w].st = order[c[1]].st, ![w].plan = plan[Owner(c[1])]]
            PROVE  txn'[w].pc = "settle"
        BY <4>2 DEF TypeOK, Txn
      <4> QED
        BY <2>2, <4>1, <4>2, LeaveFull
    <3> QED
      BY <2>6, <3>1, <3>2, <3>3
  <2> QED
    BY <2>1, <2>3, <2>4, <2>5, <2>6 DEF Loading
<1>3. \A o \in Orders : refunded[o] \in Int
  BY DEF TypeOK
<1> QED
  BY <1>1, <1>2, <1>3, RefundsKept

LEMMA CommitRefunds ==
    ASSUME TypeOK, RefundInv, NEW w \in Workers,
           \/ CreateCommit(w) \/ CreateReturn(w) \/ PollClose(w) \/ Settle(w) \/ ChannelPlace(w)
    PROVE  RefundInv'
<1>0. \A o \in Orders : /\ refunded[o] \in Int /\ order[o] \in Order /\ chan[o] \in PayTrade
  BY DEF TypeOK
<1>1. CASE CreateCommit(w) \/ CreateReturn(w) \/ PollClose(w)
  <2>1. \A o \in Orders : order'[o].st = "REFUNDED" => order[o].st = "REFUNDED"
    <3>1. \A S : \A o \in Orders :
            CloseOrders(S)[o].st = "REFUNDED" => order[o].st = "REFUNDED"
      BY <1>0 DEF CloseOrders, Order
    <3>2. CASE CreateCommit(w)
      <4>1. txn[w].o \in Orders
        BY <3>2 DEF CreateCommit, TypeOK, WellFormed
      <4>2. \A o \in Orders :
              \/ order'[o].st = "PENDING"
              \/ order'[o] = CloseOrders(txn[w].closed)[o]
        BY <3>2, <4>1 DEF CreateCommit, CloseOrders
      <4> QED
        BY <3>1, <4>2
    <3>3. CASE CreateReturn(w) \/ PollClose(w)
      BY <3>1, <3>3 DEF CreateReturn, PollClose
    <3> QED
      BY <1>1, <3>2, <3>3
  <2>2. Leave(w) /\ UNCHANGED <<refunded, chan>>
    BY <1>1 DEF CreateCommit, CreateReturn, PollClose
  <2> QED
    BY <1>0, <2>1, <2>2, LeaveFull, RefundsKept
<1>2. CASE Settle(w)
  <2> DEFINE t == txn[w]  r == rows[t.o][t.row]
  <2>1. t.o \in Orders /\ r \in Row
    <3>1. t.o \in Orders /\ t.row \in DOMAIN rows[t.o] /\ rows[t.o] \in Seq(Row)
      BY <1>2 DEF Settle, TypeOK, WellFormed
    <3> QED
      BY <3>1
  <2>2. r.amt \in Nat
    BY <2>1, PriceFacts DEF Row
  <2>3. \A o \in Orders : refunded'[o] \in Int /\ refunded'[o] <= refunded[o]
    BY <1>0, <1>2, <2>1, <2>2 DEF Settle, TypeOK
  <2>4. \A o \in Orders : order'[o].st = "REFUNDED" => order[o].st = "REFUNDED"
    BY <1>0, <1>2, <2>1 DEF Settle, CloseOrders, Write, Order, TypeOK
  <2>5. Leave(w) /\ UNCHANGED chan
    BY <1>2 DEF Settle
  <2> QED
    BY <2>3, <2>4, <2>5, LeaveFull, RefundsKept
<1>3. CASE ChannelPlace(w)
  <2>1. txn[w].o \in Orders /\ txn[w] \in Txn
    BY <1>3 DEF ChannelPlace, TypeOK, WellFormed
  <2>2. /\ txn' = [txn EXCEPT ![w] = txn'[w]] /\ txn'[w].pc = "create_commit"
        /\ UNCHANGED <<order, refunded>>
    BY <1>3, <2>1 DEF ChannelPlace, TypeOK, Txn
  <2>3. \A o \in Orders : chan'[o].refunded = chan[o].refunded
    BY <1>0, <1>3, <2>1 DEF ChannelPlace, TypeOK, PayTrade
  <2>4. FullOK(txn[w])'
    BY <2>2 DEF FullOK
  <2> QED
    BY <1>0, <2>2, <2>3, <2>4, RefundsKept
<1> QED
  BY <1>1, <1>2, <1>3


LEMMA PostsCount ==
    ASSUME NEW w, NEW amt \in 1..Price
    PROVE  IsFiniteSet({w} \X (1..amt)) /\ Cardinality({w} \X (1..amt)) = amt
<1>1. amt \in Nat /\ 1 \in Int /\ amt \in Int
  BY PriceFacts
<1>2. IsFiniteSet({w}) /\ Cardinality({w}) = 1
  BY FS_Singleton
<1>3. IsFiniteSet(1..amt) /\ Cardinality(1..amt) = IF 1 > amt THEN 0 ELSE amt - 1 + 1
  BY <1>1, FS_Interval
<1>4. Cardinality(1..amt) = amt
  BY <1>1, <1>3
<1>5. IsFiniteSet({w} \X (1..amt)) /\ Cardinality({w} \X (1..amt)) = Cardinality({w}) * Cardinality(1..amt)
  BY <1>2, <1>3, FS_Product
<1>6. 1 * amt = amt
  BY <1>1
<1> QED
  BY <1>2, <1>4, <1>5, <1>6

(* What the other requests and orders owe, and what is known of them.      *)
LEMMA RefundFacts ==
    ASSUME TypeOK, RefundInv, NEW w \in Workers, txn[w].pc \in {"refund_call", "refund_commit"}
    PROVE  /\ txn[w] \in Txn /\ txn[w].o \in Orders /\ txn[w].amt \in 1..Price /\ FullOK(txn[w])
           /\ \A o \in Orders : /\ refunded[o] \in Int /\ order[o] \in Order /\ chan[o] \in PayTrade
                                /\ chan[o].refunded \in Nat /\ chan[o].refunded <= Price
           /\ \A o \in Orders : IsFiniteSet(Owed(o)) /\ Cardinality(Owed(o)) \in Nat
<1>1. txn[w] \in Txn /\ txn[w].o \in Orders /\ txn[w].amt \in 1..Price /\ FullOK(txn[w])
  BY DEF TypeOK, WellFormed, RefundInv
<1>2. \A o \in Orders : /\ refunded[o] \in Int /\ order[o] \in Order /\ chan[o] \in PayTrade
                         /\ chan[o].refunded \in 0..Price
  BY DEF TypeOK, PayTrade
<1>3. \A o \in Orders : IsFiniteSet(Owed(o)) /\ Cardinality(Owed(o)) \in Nat
  BY FS_CardinalityType DEF RefundInv, OwedOK
<1> QED
  BY <1>1, <1>2, <1>3, PriceFacts

(* The channel returns the money: the whole amount becomes owed.           *)
LEMMA CallRefunds ==
    ASSUME TypeOK, RefundInv, NEW w \in Workers, RefundCall(w) PROVE RefundInv'
<1> PICK t : t = txn[w]
  OBVIOUS
<1>0. /\ t \in Txn /\ t.o \in Orders /\ t.amt \in 1..Price /\ t.pc = "refund_call" /\ FullOK(t)
      /\ \A o \in Orders : refunded[o] \in Int /\ chan[o] \in PayTrade /\ chan[o].refunded \in Nat
      /\ \A o \in Orders : IsFiniteSet(Owed(o)) /\ Cardinality(Owed(o)) \in Nat
      /\ \A v \in Workers \ {w} : txn'[v] = txn[v]
  <2>1. txn[w].pc = "refund_call" /\ \A v \in Workers \ {w} : txn'[v] = txn[v]
    BY DEF RefundCall, Leave, TypeOK
  <2> QED
    BY <2>1, RefundFacts
<1>1. /\ chan[t.o].refunded + t.amt <= Price /\ chan'[t.o].refunded = chan[t.o].refunded + t.amt
      /\ \A o \in Orders \ {t.o} : chan'[o] = chan[o]
      /\ UNCHANGED <<order, refunded>>
  BY <1>0 DEF RefundCall, TypeOK, PayTrade
<1>2. \/ txn'[w] = NoTxn
      \/ txn'[w].pc = "refund_commit" /\ txn'[w].o = t.o /\ txn'[w].amt = t.amt /\ txn'[w].full = t.full
  BY <1>0 DEF RefundCall, Leave, TypeOK, Txn
<1>3. \A o \in Orders : chan'[o].refunded \in Nat /\ chan[o].refunded <= chan'[o].refunded
  BY <1>0, <1>1, PriceFacts
<1>4. ASSUME NEW o \in Orders, o # t.o PROVE OwedOK(o)'
  <2>1. Owed(o)' = Owed(o)
    BY <1>0, <1>2, <1>4 DEF Owed, NoTxn
  <2> QED
    BY <1>1, <1>4, <2>1 DEF RefundInv, OwedOK
<1>5. OwedOK(t.o)'
  <2> PICK New : New = {w} \X (1..t.amt)
    OBVIOUS
  <2>1. IsFiniteSet(New) /\ Cardinality(New) = t.amt
    BY <1>0, PostsCount
  <2>2. Owed(t.o)' \in SUBSET (Owed(t.o) \cup New)
    <3>1. ASSUME NEW e \in Owed(t.o)', e[1] = w PROVE e \in New
      <4>1. e \in Workers \X (1..Price) /\ e[2] <= t.amt
        BY <1>2, <3>1 DEF Owed, NoTxn
      <4>2. e = <<w, e[2]>> /\ e[2] \in 1..t.amt
        BY <1>0, <3>1, <4>1, PriceFacts
      <4> QED
        BY <4>2
    <3>2. ASSUME NEW e \in Owed(t.o)', e[1] # w PROVE e \in Owed(t.o)
      BY <1>0, <3>2 DEF Owed
    <3> QED
      BY <3>1, <3>2
  <2>3. /\ IsFiniteSet(Owed(t.o) \cup New)
        /\ Cardinality(Owed(t.o) \cup New) <= Cardinality(Owed(t.o)) + t.amt
    <3>1. IsFiniteSet(Owed(t.o) \cap New) /\ Cardinality(Owed(t.o) \cap New) \in Nat
      BY <1>0, FS_Intersection, FS_CardinalityType
    <3> QED
      BY <1>0, <2>1, <3>1, FS_Union
  <2>4. IsFiniteSet(Owed(t.o)') /\ Cardinality(Owed(t.o)') <= Cardinality(Owed(t.o) \cup New)
    BY <2>2, <2>3, FS_Subset
  <2>5. /\ Cardinality(Owed(t.o)') \in Nat /\ Cardinality(Owed(t.o) \cup New) \in Nat
        /\ t.amt \in Nat /\ refunded[t.o] + Cardinality(Owed(t.o)) <= chan[t.o].refunded
    BY <1>0, <2>3, <2>4, FS_CardinalityType, PriceFacts DEF RefundInv, OwedOK
  <2>6. refunded[t.o] + Cardinality(Owed(t.o)') <= chan[t.o].refunded + t.amt
    BY <1>0, <2>3, <2>4, <2>5
  <2> QED
    BY <1>1, <2>4, <2>6 DEF OwedOK
<1>6. ASSUME NEW o \in Orders, order[o].st = "REFUNDED" PROVE chan'[o].refunded = Price
  BY <1>0, <1>1, <1>6, PriceFacts DEF RefundInv
<1>7. ASSUME NEW v \in Workers PROVE FullOK(txn[v])'
  <2>1. CASE v = w
    BY <1>0, <1>1, <1>2, <2>1 DEF FullOK, NoTxn
  <2>2. CASE v # w
    <3>1. txn'[v] = txn[v] /\ FullOK(txn[v]) /\ WellFormed(txn[v])
      BY <1>0, <2>2 DEF TypeOK, RefundInv
    <3>2. txn[v].amt \in Nat
      BY DEF TypeOK, Txn
    <3> QED
      BY <1>0, <1>3, <3>1, <3>2, PriceFacts DEF FullOK, WellFormed
  <2> QED
    BY <2>1, <2>2
<1> QED
  BY <1>1, <1>4, <1>5, <1>6, <1>7 DEF RefundInv

(* The refund is put on record: what it owed is paid.                      *)
LEMMA RecordRefunds ==
    ASSUME TypeOK, RefundInv, NEW w \in Workers, RefundCommit(w) PROVE RefundInv'
<1> PICK t : t = txn[w]
  OBVIOUS
<1>0. /\ t \in Txn /\ t.o \in Orders /\ t.amt \in 1..Price /\ t.pc = "refund_commit" /\ FullOK(t)
      /\ \A o \in Orders : /\ refunded[o] \in Int /\ order[o] \in Order
                           /\ chan[o].refunded \in Nat /\ chan[o].refunded <= Price
      /\ \A o \in Orders : IsFiniteSet(Owed(o)) /\ Cardinality(Owed(o)) \in Nat
      /\ \A v \in Workers \ {w} : txn'[v] = txn[v]
      /\ txn'[w] = NoTxn
  <2>1. /\ txn[w].pc = "refund_commit" /\ txn'[w] = NoTxn
        /\ \A v \in Workers \ {w} : txn'[v] = txn[v]
    BY DEF RefundCommit, Leave, TypeOK
  <2> QED
    BY <2>1, RefundFacts
<1>1. /\ refunded'[t.o] = refunded[t.o] + t.amt
      /\ \A o \in Orders \ {t.o} : refunded'[o] = refunded[o] /\ order'[o] = order[o]
      /\ order'[t.o].st = "REFUNDED" => t.full \/ order[t.o].st = "REFUNDED"
      /\ chan' = chan
  BY <1>0 DEF RefundCommit, TypeOK, Order
<1>2. ASSUME NEW o \in Orders, o # t.o PROVE OwedOK(o)'
  <2>1. Owed(o)' = Owed(o)
    BY <1>0, <1>2 DEF Owed, NoTxn
  <2> QED
    BY <1>1, <1>2, <2>1 DEF RefundInv, OwedOK
<1>3. OwedOK(t.o)'
  <2> PICK Paid : Paid = {w} \X (1..t.amt)
    OBVIOUS
  <2>1. IsFiniteSet(Paid) /\ Cardinality(Paid) = t.amt
    BY <1>0, PostsCount
  <2>2. Owed(t.o)' \in SUBSET (Owed(t.o) \ Paid)
    BY <1>0 DEF Owed, NoTxn
  <2>3. Owed(t.o) \cap Paid = Paid
    BY <1>0, PriceFacts DEF Owed
  <2>4. IsFiniteSet(Owed(t.o) \ Paid) /\ Cardinality(Owed(t.o) \ Paid) = Cardinality(Owed(t.o)) - t.amt
    <3>1. /\ IsFiniteSet(Owed(t.o) \ Paid)
          /\ Cardinality(Owed(t.o) \ Paid) = Cardinality(Owed(t.o)) - Cardinality(Owed(t.o) \cap Paid)
      BY <1>0, FS_Difference
    <3> QED
      BY <2>1, <2>3, <3>1
  <2>5. IsFiniteSet(Owed(t.o)') /\ Cardinality(Owed(t.o)') <= Cardinality(Owed(t.o) \ Paid)
    BY <2>2, <2>4, FS_Subset
  <2>6. /\ Cardinality(Owed(t.o)') \in Nat /\ t.amt \in Nat
        /\ refunded[t.o] + Cardinality(Owed(t.o)) <= chan[t.o].refunded
    BY <1>0, <2>5, FS_CardinalityType, PriceFacts DEF RefundInv, OwedOK
  <2>7. refunded[t.o] + t.amt + Cardinality(Owed(t.o)') <= chan[t.o].refunded
    BY <1>0, <2>4, <2>5, <2>6
  <2> QED
    BY <1>1, <2>5, <2>7 DEF OwedOK
<1>4. ASSUME NEW o \in Orders, order'[o].st = "REFUNDED" PROVE chan'[o].refunded = Price
  BY <1>0, <1>1, <1>4, PriceFacts DEF RefundInv, FullOK
<1>5. ASSUME NEW v \in Workers PROVE FullOK(txn[v])'
  BY <1>0, <1>1 DEF RefundInv, FullOK, NoTxn
<1> QED
  BY <1>2, <1>3, <1>4, <1>5 DEF RefundInv

LEMMA StepRefunds == ASSUME TypeOK, RefundInv, [Next]_vars PROVE RefundInv'
<1>1. ASSUME NEW w \in Workers, Request(w) \/ Step(w) \/ Abort(w) PROVE RefundInv'
  BY <1>1, LoadingRefunds, CommitRefunds, CallRefunds, RecordRefunds DEF Request, Step, Loading
<1>2. CASE (\E o \in Orders : Pay(o)) \/ Tick \/ UNCHANGED vars
  <2>1. UNCHANGED <<order, refunded, txn>> /\ \A o \in Orders : chan'[o].refunded = chan[o].refunded
    <3>1. \A o \in Orders : chan[o] \in PayTrade
      BY DEF TypeOK
    <3>2. ASSUME NEW o \in Orders, Pay(o)
          PROVE  UNCHANGED <<order, refunded, txn>> /\ \A q \in Orders : chan'[q].refunded = chan[q].refunded
      BY <3>1, <3>2 DEF Pay, TypeOK, PayTrade
    <3>3. CASE Tick \/ UNCHANGED vars
      BY <3>3 DEF Tick, vars
    <3> QED
      BY <1>2, <3>2, <3>3
  <2>2. \A o \in Orders : Owed(o)' = Owed(o)
    BY <2>1 DEF Owed
  <2>3. \A w \in Workers : FullOK(txn[w])'
    BY <2>1 DEF RefundInv, FullOK, TypeOK, WellFormed
  <2> QED
    BY <2>1, <2>2, <2>3 DEF RefundInv, OwedOK
<1> QED
  BY <1>1, <1>2 DEF Next

LEMMA InitRefunds == Init => RefundInv
<1>1. ASSUME Init PROVE RefundInv
  <2>1. \A o \in Orders : Owed(o) = {}
    BY <1>1 DEF Init, Owed, NoTxn
  <2> QED
    <3>1. \A o \in Orders : OwedOK(o)
      <4>1. ASSUME NEW o \in Orders
            PROVE  refunded[o] = 0 /\ chan[o].refunded = 0 /\ IsFiniteSet(Owed(o)) /\ Cardinality(Owed(o)) = 0
        BY <1>1, <2>1, FS_EmptySet DEF Init
      <4> QED
        BY <4>1 DEF OwedOK
    <3>2. \A o \in Orders : order[o].st = "none"
      BY <1>1 DEF Init
    <3>3. \A w \in Workers : FullOK(txn[w])
      BY <1>1 DEF Init, FullOK, NoTxn
    <3> QED
      BY <3>1, <3>2, <3>3 DEF RefundInv
<1> QED
  BY <1>1

LEMMA RefundsAlways == Spec => [](TypeOK /\ RefundInv)
<1>1. TypeOK /\ RefundInv /\ [Next]_vars => RefundInv'
  BY StepRefunds
<1> QED
  BY InitRefunds, TypeCorrect, <1>1, PTL DEF Spec


-----------------------------------------------------------------------------
(* Requests one at a time.  What the orders, refunds and plans of the      *)
(* ledger always satisfy, what the payment rows add to it, and what a      *)
(* request in progress knows: nobody else can have changed what it loaded. *)

OneAtATime == \E w : Workers = {w}

Rivals(o) == {p \in Orders : Offer[p] = Offer[o] /\ Pending(p)}
InTime(o) == Pending(o) /\ ~Expired(o)

OrderOK(o) ==
    /\ chan[o].paid => order[o].st # "none"
    /\ ~HasSettled(o) => refunded[o] = 0
    /\ order[o].st = "SUCCEEDED" => refunded[o] \in 0..(Price - 1)
    /\ order[o].st = "REFUNDED" => refunded[o] = Price
    /\ HasSettled(o) => plan[Owner(o)].tier # "none"

NoRivals == \A o, p \in Orders : Offer[o] = Offer[p] /\ InTime(o) /\ InTime(p) => o = p

LedgerInv == NoRivals /\ \A o \in Orders : OrderOK(o)

(* An order that is not settled has no row of a payment or a refund.       *)
RowsOK(o) == ~HasSettled(o) =>
    \A i \in DOMAIN rows[o] : rows[o][i].st \notin {"SUCCEEDED", "REFUNDED"}

AloneOK(t) ==
    /\ \A o \in t.closed : o \in Orders /\ Expired(o)
    /\ t.pc \in {"create_place", "create_commit"} /\ t.new =>
            order[t.o].st = "none" /\ t.closed = Rivals(t.o)
    /\ t.pc = "create_query" => ~t.new
    /\ t.pc \in {"poll_query", "create_query", "poll_close", "cb_payment", "settle"} =>
            order[t.o].st = t.st
    /\ t.pc \in {"poll_query", "create_query", "settle", "refund_call", "refund_commit"} =>
            t.plan = plan[Owner(t.o)]
    /\ t.pc = "cb_order" => ~HasSettled(t.trade)
    /\ t.pc \in {"cb_payment", "settle"} => ~HasSettled(t.o)
    /\ t.pc \in {"refund_call", "refund_commit"} =>
            /\ order[t.o].st = "SUCCEEDED" /\ t.amt + refunded[t.o] <= Price
            /\ t.full <=> t.amt + refunded[t.o] = Price

AloneInv == /\ LedgerInv
            /\ \A o \in Orders : RowsOK(o)
            /\ \A w \in Workers : AloneOK(txn[w])

-----------------------------------------------------------------------------
(* A step of the ledger keeps what the ledger satisfies.                   *)
LEMMA OrderKept ==
    ASSUME NEW o \in Orders, OrderOK(o),
           refunded'[o] = refunded[o], chan'[o].paid = chan[o].paid,
           plan[Owner(o)].tier # "none" => plan'[Owner(o)].tier # "none",
           \/ order'[o].st = order[o].st
           \/ order[o].st \in {"none", "PENDING"} /\ order'[o].st \in {"PENDING", "CLOSED"}
    PROVE  OrderOK(o)'
BY DEF OrderOK, HasSettled, Owner

LEMMA RivalsKept ==
    ASSUME NoRivals, \A o \in Orders : InTime(o)' => InTime(o) PROVE NoRivals'
BY DEF NoRivals

LEMMA ClosingIs ==
    ASSUME TypeOK, NEW S \in SUBSET Orders, \A o \in S : Ledger!Late(o), NEW o \in Orders
    PROVE  /\ Ledger!Closing(S)[o] = IF o \in S THEN [order[o] EXCEPT !.st = "CLOSED"] ELSE order[o]
           /\ o \in S => order[o].st = "PENDING" /\ ~InTime(o)
BY PaymentAssumption DEF Ledger!Closing, Ledger!Late, Ledger!Pending, TypeOK, Order, InTime,
                         Pending, Expired, Age

LEMMA LedgerStepKeeps ==
    ASSUME TypeOK, TypeOK', LedgerInv, [Ledger!Next]_(Ledger!vars) PROVE LedgerInv'
<1> DEFINE Paid == [o \in Orders |-> chan[o].paid]
<1>0. /\ \A o \in Orders : /\ order[o] \in Order /\ refunded[o] \in Int /\ Owner(o) \in Users
                           /\ Owner(o) = Offer[o].user
      /\ \A u \in Users : plan[u] \in UserPlan
      /\ now \in Nat /\ PendingTimeout \in Nat
      /\ order \in [Orders -> Order] /\ refunded \in [Orders -> Int] /\ plan \in [Users -> UserPlan]
  BY OwnerIsUser, PaymentAssumption DEF TypeOK, Owner
<1>1. ASSUME Paid' = Paid PROVE \A o \in Orders : chan'[o].paid = chan[o].paid
  <2>1. \A o \in Orders : Paid'[o] = chan'[o].paid /\ Paid[o] = chan[o].paid
    OBVIOUS
  <2> QED
    BY <1>1, <2>1
<1>2. CASE UNCHANGED Ledger!vars
  <2>1. UNCHANGED <<order, refunded, plan, now>> /\ \A o \in Orders : chan'[o].paid = chan[o].paid
    BY <1>1, <1>2 DEF Ledger!vars
  <2> QED
    BY <2>1 DEF LedgerInv, NoRivals, InTime, Pending, Expired, Age, OrderOK, HasSettled, Owner
<1>3. ASSUME NEW o \in Orders, Ledger!Open(o) PROVE LedgerInv'
  <2> PICK S : S = {p \in Orders : Offer[p] = Offer[o] /\ Ledger!Pending(p)}
    OBVIOUS
  <2>1. /\ order[o].st = "none" /\ S \in SUBSET Orders /\ \A p \in S : Ledger!Late(p)
        /\ order' = [Ledger!Closing(S) EXCEPT ![o] = [st |-> "PENDING", created |-> now]]
        /\ UNCHANGED <<refunded, plan, now>> /\ Paid' = Paid
    BY <1>3 DEF Ledger!Open
  <2>2. \A p \in Orders : chan'[p].paid = chan[p].paid
    BY <1>1, <2>1
  <2>3. order'[o].st = "PENDING"
    BY <2>1 DEF Ledger!Closing
  <2>4. ASSUME NEW p \in Orders, p # o
        PROVE  /\ order'[p] = IF p \in S THEN [order[p] EXCEPT !.st = "CLOSED"] ELSE order[p]
               /\ p \in S => order[p].st = "PENDING"
    <3>1. order'[p] = Ledger!Closing(S)[p]
      BY <2>1, <2>4 DEF Ledger!Closing
    <3> QED
      BY <2>1, <3>1, ClosingIs
  <2>5. ASSUME NEW p \in Orders PROVE OrderOK(p)'
    <3>1. OrderOK(p) /\ order[p] \in Order
      BY <1>0 DEF LedgerInv
    <3>2. CASE p = o
      BY <2>1, <2>2, <2>3, <3>1, <3>2, OrderKept
    <3>3. CASE p # o
      <4>1. order'[p].st = order[p].st \/ (order[p].st = "PENDING" /\ order'[p].st = "CLOSED")
        BY <2>4, <3>1, <3>3 DEF Order
      <4> QED
        BY <2>1, <2>2, <3>1, <4>1, OrderKept
    <3> QED
      BY <3>2, <3>3
  <2>6. ASSUME NEW p \in Orders, p # o, InTime(p)' PROVE InTime(p) /\ Offer[p] # Offer[o]
    <3>1. order'[p].st = "PENDING" /\ order[p] \in Order
      BY <1>0, <2>6 DEF InTime, Pending
    <3>2. p \notin S /\ order'[p] = order[p]
      BY <2>4, <2>6, <3>1 DEF Order
    <3>3. order[p].st = "PENDING" /\ Offer[p] # Offer[o]
      BY <3>1, <3>2 DEF Ledger!Pending
    <3> QED
      BY <2>1, <2>6, <3>2, <3>3 DEF InTime, Pending, Expired, Age
  <2>7. NoRivals'
    BY <2>6 DEF LedgerInv, NoRivals
  <2> QED
    BY <2>5, <2>7 DEF LedgerInv
<1>4. ASSUME NEW S \in SUBSET Orders, Ledger!Close(S) PROVE LedgerInv'
  <2>1. /\ order' = Ledger!Closing(S) /\ \A p \in S : Ledger!Late(p)
        /\ UNCHANGED <<refunded, plan, now>> /\ Paid' = Paid
    BY <1>4 DEF Ledger!Close
  <2>2. \A p \in Orders : chan'[p].paid = chan[p].paid
    BY <1>1, <2>1
  <2>3. ASSUME NEW p \in Orders PROVE OrderOK(p)' /\ (InTime(p)' => InTime(p))
    <3>1. /\ OrderOK(p) /\ order[p] \in Order
          /\ p \in S => order[p].st = "PENDING"
          /\ order'[p] = IF p \in S THEN [order[p] EXCEPT !.st = "CLOSED"] ELSE order[p]
      <4>1. OrderOK(p) /\ order[p] \in Order
        BY <1>0 DEF LedgerInv
      <4>2. \A q \in S : Ledger!Late(q)
        BY <2>1
      <4> QED
        BY <2>1, <4>1, <4>2, ClosingIs
    <3>2. order'[p].st = order[p].st \/ (order[p].st = "PENDING" /\ order'[p].st = "CLOSED")
      BY <3>1 DEF Order
    <3>3. OrderOK(p)'
      BY <2>1, <2>2, <3>1, <3>2, OrderKept
    <3>4. InTime(p)' => InTime(p)
      BY <2>1, <3>1 DEF InTime, Pending, Expired, Age, Order
    <3> QED
      BY <3>3, <3>4
  <2> QED
    BY <2>3, RivalsKept DEF LedgerInv
<1>5. ASSUME NEW S \in SUBSET Orders, NEW o \in Orders, Ledger!Settle(o, S) PROVE LedgerInv'
  <2>1. /\ order[o].st \in {"PENDING", "CLOSED"} /\ \A p \in S : Ledger!Late(p)
        /\ order' = [Ledger!Closing(S) EXCEPT ![o].st = "SUCCEEDED"]
        /\ plan' = [plan EXCEPT ![Offer[o].user] = Ledger!Extended(@)]
        /\ UNCHANGED <<refunded, now>> /\ Paid' = Paid
    BY <1>5 DEF Ledger!Settle
  <2>2. \A p \in Orders : chan'[p].paid = chan[p].paid
    BY <1>1, <2>1
  <2>3. /\ plan'[Owner(o)].tier = "pro"
        /\ \A u \in Users : plan'[u] = plan[u] \/ plan'[u].tier = "pro"
    BY <1>0, <2>1 DEF Ledger!Extended
  <2>4. order'[o].st = "SUCCEEDED"
    <3>1. Ledger!Closing(S)[o] \in {order[o], [order[o] EXCEPT !.st = "CLOSED"]}
      BY DEF Ledger!Closing
    <3> QED
      BY <1>0, <2>1, <3>1 DEF Ledger!Closing, Order
  <2>5. OrderOK(o)'
    <3>1. OrderOK(o) /\ ~HasSettled(o)
      BY <2>1 DEF LedgerInv, HasSettled
    <3>2. refunded'[o] = 0
      BY <2>1, <3>1 DEF OrderOK
    <3>3. plan'[Owner(o)].tier # "none"
      BY <2>3
    <3> QED
      BY <2>4, <3>2, <3>3, PriceFacts DEF OrderOK, HasSettled, Owner
  <2>6. ASSUME NEW p \in Orders, p # o PROVE OrderOK(p)' /\ (InTime(p)' => InTime(p))
    <3>1. /\ OrderOK(p) /\ order[p] \in Order
          /\ p \in S => order[p].st = "PENDING"
          /\ order'[p] = IF p \in S THEN [order[p] EXCEPT !.st = "CLOSED"] ELSE order[p]
      <4>1. order'[p] = Ledger!Closing(S)[p]
        BY <2>1, <2>6 DEF Ledger!Closing
      <4>2. OrderOK(p) /\ order[p] \in Order
        BY <1>0 DEF LedgerInv
      <4>3. \A q \in S : Ledger!Late(q)
        BY <2>1
      <4> QED
        BY <4>1, <4>2, <4>3, ClosingIs
    <3>2. order'[p].st = order[p].st \/ (order[p].st = "PENDING" /\ order'[p].st = "CLOSED")
      BY <3>1 DEF Order
    <3>3. plan[Owner(p)].tier # "none" => plan'[Owner(p)].tier # "none"
      BY <1>0, <2>3
    <3>4. OrderOK(p)'
      BY <2>1, <2>2, <3>1, <3>2, <3>3, OrderKept
    <3>5. InTime(p)' => InTime(p)
      BY <2>1, <3>1 DEF InTime, Pending, Expired, Age, Order
    <3> QED
      BY <3>4, <3>5
  <2>7. ~InTime(o)'
    BY <2>4 DEF InTime, Pending
  <2> QED
    BY <2>5, <2>6, <2>7, RivalsKept DEF LedgerInv
<1>6. ASSUME NEW o \in Orders, NEW amt \in 1..Price, Ledger!Refund(o, amt) PROVE LedgerInv'
  <2>1. /\ order[o].st = "SUCCEEDED" /\ refunded[o] + amt <= Price
        /\ refunded'[o] = refunded[o] + amt /\ \A p \in Orders \ {o} : refunded'[p] = refunded[p]
        /\ UNCHANGED now /\ Paid' = Paid
    BY <1>0, <1>6 DEF Ledger!Refund
  <2>2. /\ \A p \in Orders \ {o} : order'[p] = order[p]
        /\ refunded'[o] = Price => order'[o].st = "REFUNDED"
        /\ refunded'[o] # Price => order'[o].st = "SUCCEEDED"
    <3>1. CASE refunded'[o] = Price
      <4>1. order' = [order EXCEPT ![o].st = "REFUNDED"]
        BY <1>6, <3>1 DEF Ledger!Refund
      <4> QED
        BY <1>0, <3>1, <4>1 DEF Order
    <3>2. CASE refunded'[o] # Price
      BY <1>6, <2>1, <3>2 DEF Ledger!Refund
    <3> QED
      BY <3>1, <3>2
  <2>3. \A u \in Users : plan'[u].tier = plan[u].tier \/ plan'[u].tier = "free"
    <3>1. CASE refunded'[o] = Price
      <4>1. plan' = [plan EXCEPT ![Offer[o].user].tier = "free"]
        BY <1>6, <3>1 DEF Ledger!Refund
      <4> QED
        BY <1>0, <4>1 DEF UserPlan
    <3>2. CASE refunded'[o] # Price
      BY <1>6, <3>2 DEF Ledger!Refund
    <3> QED
      BY <3>1, <3>2
  <2>4. \A p \in Orders : chan'[p].paid = chan[p].paid
    BY <1>1, <2>1
  <2>5. \A p \in Orders : plan[Owner(p)].tier # "none" => plan'[Owner(p)].tier # "none"
    BY <1>0, <2>3
  <2>6. ASSUME NEW p \in Orders, p # o PROVE OrderOK(p)'
    BY <2>1, <2>2, <2>4, <2>5, <2>6, OrderKept DEF LedgerInv
  <2>7. OrderOK(o)'
    <3>1. /\ OrderOK(o) /\ refunded[o] \in 0..(Price - 1) /\ plan[Owner(o)].tier # "none"
      BY <2>1 DEF LedgerInv, OrderOK, HasSettled
    <3>2. refunded'[o] \in 0..Price
      BY <2>1, <3>1, PriceFacts
    <3>3. /\ refunded'[o] = Price => order'[o].st = "REFUNDED"
          /\ refunded'[o] # Price => order'[o].st = "SUCCEEDED" /\ refunded'[o] \in 0..(Price - 1)
      BY <2>2, <3>2, PriceFacts
    <3>4. plan'[Owner(o)].tier # "none"
      BY <2>5, <3>1
    <3> QED
      BY <3>3, <3>4 DEF OrderOK, HasSettled, Owner
  <2>8. ASSUME NEW p \in Orders, InTime(p)' PROVE InTime(p)
    BY <2>1, <2>2, <2>8 DEF InTime, Pending, Expired, Age
  <2> QED
    BY <2>6, <2>7, <2>8, RivalsKept DEF LedgerInv
<1>7. ASSUME NEW o \in Orders, Ledger!Pay(o) PROVE LedgerInv'
  <2>1. order[o].st # "none" /\ Paid' = [Paid EXCEPT ![o] = TRUE] /\ UNCHANGED <<order, refunded, plan, now>>
    BY <1>7 DEF Ledger!Pay
  <2>2. \A p \in Orders : Paid'[p] = chan'[p].paid /\ Paid[p] = chan[p].paid
    OBVIOUS
  <2>3. \A p \in Orders : p # o => chan'[p].paid = chan[p].paid
    <3>1. DOMAIN Paid = Orders
      OBVIOUS
    <3> HIDE DEF Paid
    <3> QED
      BY <2>1, <2>2, <3>1
  <2> QED
    BY <2>1, <2>3 DEF LedgerInv, NoRivals, InTime, Pending, Expired, Age, OrderOK, HasSettled, Owner
<1>8. CASE Ledger!Tick
  <2>1. now' = now + 1 /\ UNCHANGED <<order, refunded, plan>> /\ Paid' = Paid
    BY <1>8 DEF Ledger!Tick
  <2>2. \A o \in Orders : chan'[o].paid = chan[o].paid
    BY <1>1, <2>1
  <2>3. \A o \in Orders : OrderOK(o)'
    BY <2>1, <2>2, OrderKept DEF LedgerInv
  <2>4. \A o \in Orders : InTime(o)' => InTime(o)
    BY <1>0, <2>1 DEF InTime, Pending, Expired, Age, Order
  <2> QED
    BY <2>3, <2>4, RivalsKept DEF LedgerInv
<1> QED
  BY <1>2, <1>3, <1>4, <1>5, <1>6, <1>7, <1>8 DEF Ledger!Next

-----------------------------------------------------------------------------
(* The steps that only load rows, and what the request knows after them.   *)
LEMMA NoTxnAlone == AloneOK(NoTxn)
BY DEF AloneOK, NoTxn

LEMMA BecomesAlone ==
    ASSUME TypeOK, AloneInv, NEW w, Workers = {w}, NEW t, AloneOK(t), Quiet,
           txn' = [txn EXCEPT ![w] = t]
    PROVE  AloneInv'
<1>1. txn'[w] = t
  BY DEF TypeOK
<1>2. AloneOK(txn[w])'
  BY <1>1 DEF AloneOK, Quiet, Expired, Pending, Age, Rivals, HasSettled, Owner
<1>3. LedgerInv'
  BY DEF AloneInv, LedgerInv, NoRivals, InTime, Pending, Expired, Age, OrderOK, HasSettled, Owner, Quiet
<1>4. \A o \in Orders : RowsOK(o)'
  BY DEF AloneInv, RowsOK, HasSettled, Quiet
<1> QED
  BY <1>2, <1>3, <1>4 DEF AloneInv

(* _mark_paid finds the receipt of every order that is settled.            *)
LEMMA SettledIsFound == ASSUME SafeInv, NEW o \in Orders, HasSettled(o) PROVE Settled(o)
BY DEF SafeInv, SettledHasReceipt, Receipt, Settled

LEMMA LoadingAlone ==
    ASSUME AllEcho, TypeOK, SafeInv, AloneInv, NEW w, Workers = {w}, Loading(w)
    PROVE  AloneInv'
<1>0. /\ txn[w] \in Txn /\ WellFormed(txn[w]) /\ RequestOK(txn[w]) /\ AloneOK(txn[w])
      /\ PendingTimeout \in Nat
  BY PaymentAssumption DEF TypeOK, SafeInv, RequestsOK, AloneInv
<1>1. ASSUME NEW u \in Users, NEW p \in Products, CreateReuse(w, u, p) PROVE AloneInv'
  <2> PICK o \in Fresh(u, p) :
        txn' = [txn EXCEPT ![w] = [NoTxn EXCEPT !.pc = "create_query", !.o = o, !.trade = o,
                   !.st = "PENDING", !.plan = plan[u], !.closed = Stale(u, p)]]
    BY <1>1 DEF CreateReuse
  <2> DEFINE t == [NoTxn EXCEPT !.pc = "create_query", !.o = o, !.trade = o,
                      !.st = "PENDING", !.plan = plan[u], !.closed = Stale(u, p)]
  <2>1. /\ o \in Orders /\ Owner(o) = u /\ order[o].st = "PENDING"
        /\ \A q \in Stale(u, p) : q \in Orders /\ Expired(q)
    BY DEF Fresh, Stale, OrdersFor, Owner, Pending
  <2>2. AloneOK(t) /\ Quiet /\ txn' = [txn EXCEPT ![w] = t]
    BY <1>1, <2>1 DEF NoTxn, AloneOK, CreateReuse, Quiet
  <2> HIDE DEF t
  <2> QED
    BY <2>2, BecomesAlone
<1>2. ASSUME NEW u \in Users, NEW p \in Products, CreateNew(w, u, p) PROVE AloneInv'
  <2> PICK o \in OrdersFor(u, p) :
        /\ order[o].st = "none"
        /\ txn' = [txn EXCEPT ![w] = [NoTxn EXCEPT !.pc = "create_place", !.o = o,
                   !.new = TRUE, !.closed = Stale(u, p)]]
    BY <1>2 DEF CreateNew
  <2> DEFINE t == [NoTxn EXCEPT !.pc = "create_place", !.o = o,
                      !.new = TRUE, !.closed = Stale(u, p)]
  <2>1. /\ \A q \in Stale(u, p) : q \in Orders /\ Expired(q)
        /\ Stale(u, p) = Rivals(o)
    BY <1>2 DEF CreateNew, Fresh, Stale, OrdersFor, Rivals, Expired
  <2>2. AloneOK(t) /\ Quiet /\ txn' = [txn EXCEPT ![w] = t]
    BY <1>2, <2>1 DEF NoTxn, AloneOK, CreateNew, Quiet
  <2> HIDE DEF t
  <2> QED
    BY <2>2, BecomesAlone
<1>3. ASSUME NEW o \in Orders, PollOrder(w, o) PROVE AloneInv'
  <2> DEFINE t == [NoTxn EXCEPT !.pc = "poll_query", !.o = o, !.trade = o,
                      !.st = "PENDING", !.plan = plan[Owner(o)]]
  <2>1. AloneOK(t) /\ Quiet /\ txn' = [txn EXCEPT ![w] = t]
    BY <1>3 DEF NoTxn, AloneOK, PollOrder, Quiet, Pending
  <2> HIDE DEF t
  <2> QED
    BY <2>1, BecomesAlone
<1>4. ASSUME NEW o \in Orders, NEW echo \in Echoes, CallbackStart(w, o, echo) PROVE AloneInv'
  <2> DEFINE t == [NoTxn EXCEPT !.trade = o, !.pc = IF echo THEN "cb_order" ELSE "cb_match"]
  <2>1. ~HasSettled(o)
    BY <1>4, SettledIsFound DEF CallbackStart
  <2>2. AloneOK(t) /\ Quiet /\ txn' = [txn EXCEPT ![w] = t]
    BY <1>4, <2>1 DEF NoTxn, AloneOK, CallbackStart, Quiet
  <2> HIDE DEF t
  <2> QED
    BY <2>2, BecomesAlone
<1>5. ASSUME NEW o \in Orders, NEW amt \in 1..Price, RefundStart(w, o, amt) PROVE AloneInv'
  <2> DEFINE full == (amt + refunded[o] >= Price)
             t == [NoTxn EXCEPT !.pc = "refund_call", !.o = o, !.amt = amt,
                      !.st = "SUCCEEDED", !.plan = plan[Owner(o)], !.full = full]
  <2>1. order[o].st = "SUCCEEDED" /\ amt + refunded[o] <= Price /\ (full <=> amt + refunded[o] = Price)
    <3>1. amt + refunded[o] \in Int /\ Price \in Int
      BY PriceFacts DEF TypeOK
    <3> QED
      BY <1>5, <3>1 DEF RefundStart
  <2>2. txn' = [txn EXCEPT ![w] = t] /\ Quiet
    BY <1>5 DEF RefundStart, Quiet
  <2> HIDE DEF full
  <2>3. AloneOK(t)
    BY <2>1 DEF NoTxn, AloneOK
  <2> HIDE DEF t
  <2> QED
    BY <2>2, <2>3, BecomesAlone
<1>6. CASE QueryUnpaid(w)
  <2> PICK pc : pc = IF txn[w].pc = "poll_query" THEN "poll_close" ELSE "create_place"
    OBVIOUS
  <2> DEFINE t == [txn[w] EXCEPT !.pc = pc]
  <2>1. txn' = [txn EXCEPT ![w] = t] /\ Quiet
    BY <1>6 DEF QueryUnpaid, Quiet, TypeOK
  <2>2. AloneOK(t)
    <3>1. /\ t.pc = pc /\ t.o = txn[w].o /\ t.st = txn[w].st /\ t.closed = txn[w].closed
          /\ t.new = txn[w].new
      BY <1>0 DEF Txn
    <3>2. \/ pc = "poll_close" /\ txn[w].pc = "poll_query"
          \/ pc = "create_place" /\ txn[w].pc = "create_query"
      BY <1>6 DEF QueryUnpaid, Querying
    <3> HIDE DEF t
    <3> QED
      BY <1>0, <3>1, <3>2 DEF AloneOK
  <2> HIDE DEF t
  <2> QED
    BY <2>1, <2>2, BecomesAlone
<1>7. CASE QueryPaid(w)
  <2> DEFINE t == [txn[w] EXCEPT !.pc = "settle", !.row = Len(rows[txn[w].o])]
  <2>1. txn' = [txn EXCEPT ![w] = t] /\ Quiet
    BY <1>7 DEF QueryPaid, Quiet, TypeOK
  <2>2. txn[w].pc \in Querying /\ txn[w].o \in Orders /\ ~HasSettled(txn[w].o)
    BY <1>0, <1>7, SettledIsFound DEF QueryPaid, Querying, WellFormed
  <2>3. AloneOK(t)
    <3>1. /\ t.pc = "settle" /\ t.o = txn[w].o /\ t.st = txn[w].st /\ t.closed = txn[w].closed
          /\ t.plan = txn[w].plan
      BY <1>0 DEF Txn
    <3> HIDE DEF t
    <3> QED
      BY <1>0, <2>2, <3>1 DEF AloneOK, Querying
  <2> HIDE DEF t
  <2> QED
    BY <2>1, <2>3, BecomesAlone
<1>8. CASE QueryRefresh(w)
  <2> PICK st : st = order[txn[w].o].st
    OBVIOUS
  <2> PICK pc : pc = IF txn[w].pc = "poll_query" THEN "poll_close"
                     ELSE IF st = "PENDING" THEN "create_place" ELSE "create_return"
    OBVIOUS
  <2> DEFINE t == [txn[w] EXCEPT !.st = st, !.pc = pc]
  <2>1. txn' = [txn EXCEPT ![w] = t] /\ Quiet
    BY <1>8 DEF QueryRefresh, Quiet, TypeOK
  <2>2. AloneOK(t)
    <3>1. /\ t.pc = pc /\ t.o = txn[w].o /\ t.st = order[t.o].st /\ t.closed = txn[w].closed
          /\ t.new = txn[w].new
      BY <1>0 DEF Txn
    <3>2. \/ pc = "poll_close"
          \/ pc \in {"create_place", "create_return"} /\ txn[w].pc = "create_query"
      BY <1>8 DEF QueryRefresh, Querying
    <3> HIDE DEF t
    <3> QED
      BY <1>0, <3>1, <3>2 DEF AloneOK
  <2> HIDE DEF t
  <2> QED
    BY <2>1, <2>2, BecomesAlone
<1>9. ASSUME Leave(w), Quiet PROVE AloneInv'
  BY <1>9, NoTxnAlone, BecomesAlone DEF Leave
<1>10. CASE CallbackOrder(w)
  <2> DEFINE o == txn[w].trade
             t == [txn[w] EXCEPT !.pc = "cb_payment", !.o = o, !.st = order[o].st]
  <2>1. (Leave(w) \/ txn' = [txn EXCEPT ![w] = t]) /\ Quiet
    BY <1>10 DEF CallbackOrder, Quiet, TypeOK
  <2>2. AloneOK(t)
    <3>1. /\ t.pc = "cb_payment" /\ t.o = txn[w].trade /\ t.st = order[t.o].st
          /\ t.closed = txn[w].closed
      BY <1>0 DEF Txn
    <3> HIDE DEF t
    <3> QED
      BY <1>0, <1>10, <3>1 DEF AloneOK, CallbackOrder
  <2> HIDE DEF t
  <2> QED
    BY <1>9, <2>1, <2>2, BecomesAlone
<1>11. CASE CallbackPayment(w)
  <2> DEFINE o == txn[w].o
             t == [txn[w] EXCEPT !.pc = "settle", !.row = Len(rows[o]), !.plan = plan[Owner(o)]]
  <2>1. (Leave(w) \/ txn' = [txn EXCEPT ![w] = t]) /\ Quiet
    BY <1>11 DEF CallbackPayment, Quiet, TypeOK
  <2>2. AloneOK(t)
    <3>1. /\ t.pc = "settle" /\ t.o = txn[w].o /\ t.st = txn[w].st /\ t.closed = txn[w].closed
          /\ t.plan = plan[Owner(t.o)]
      BY <1>0 DEF Txn
    <3> HIDE DEF t
    <3> QED
      BY <1>0, <1>11, <3>1 DEF AloneOK, CallbackPayment
  <2> HIDE DEF t
  <2> QED
    BY <1>9, <2>1, <2>2, BecomesAlone
<1>12. CASE CallbackMatch(w)
  BY <1>0, <1>12 DEF CallbackMatch, RequestOK
<1>13. CASE SettleFails(w) \/ RefundRefused(w) \/ Abort(w)
  BY <1>9, <1>13 DEF SettleFails, RefundRefused, Abort, Quiet
<1> QED
  BY <1>1, <1>2, <1>3, <1>4, <1>5, <1>6, <1>7, <1>8, <1>10, <1>11, <1>12, <1>13 DEF Loading


-----------------------------------------------------------------------------
(* The steps that write: each is one step of the ledger.                   *)
LedgerStep == [Ledger!Next]_(Ledger!vars)

SamePaid == \A o \in Orders : chan'[o].paid = chan[o].paid

LEMMA PaidSame ==
    ASSUME SamePaid
    PROVE  [o \in Orders |-> chan[o].paid]' = [o \in Orders |-> chan[o].paid]
BY DEF SamePaid

LEMMA QuietLedger ==
    ASSUME SamePaid, UNCHANGED <<order, refunded, plan, now>> PROVE LedgerStep
BY PaidSame DEF LedgerStep, Ledger!vars

LEMMA ClosedRows ==
    ASSUME TypeOK, NEW S, NEW o \in Orders, NEW i \in DOMAIN rows[o]
    PROVE  \/ ClosePayments(S)[o][i].st = rows[o][i].st
           \/ rows[o][i].st = "PENDING" /\ ClosePayments(S)[o][i].st = "CLOSED"
<1>1. rows[o][i] \in Row
  BY DEF TypeOK
<1> QED
  BY <1>1 DEF ClosePayments, Row

(* Closing orders that are late, and their pending rows.                   *)
LEMMA CloseIsStep ==
    ASSUME TypeOK, AloneInv, NEW S, \A o \in S : o \in Orders /\ Expired(o),
           order' = CloseOrders(S), rows' = ClosePayments(S), UNCHANGED <<refunded, plan, chan, now>>
    PROVE  LedgerStep /\ \A o \in Orders : RowsOK(o)'
<1>1. S \in SUBSET Orders /\ \A o \in S : Ledger!Late(o)
  BY DEF Expired, Pending, Age, Ledger!Late, Ledger!Pending
<1>2. order' = Ledger!Closing(S)
  BY DEF CloseOrders, Ledger!Closing
<1>3. Ledger!Close(S)
  BY <1>1, <1>2 DEF Ledger!Close
<1>4. LedgerStep
  BY <1>1, <1>3 DEF LedgerStep, Ledger!Next
<1>5. ASSUME NEW o \in Orders, ~HasSettled(o)' PROVE ~HasSettled(o)
  BY <1>5 DEF HasSettled, CloseOrders, TypeOK, Order, Expired, Pending
<1>6. ASSUME NEW o \in Orders PROVE RowsOK(o)'
  <2>1. DOMAIN rows'[o] = DOMAIN rows[o]
    BY ClosePaymentsType
  <2> QED
    BY <1>5, <2>1, ClosedRows DEF AloneInv, RowsOK
<1> QED
  BY <1>4, <1>6

LEMMA CreateIsStep ==
    ASSUME TypeOK, AloneInv, NEW w, Workers = {w}, CreateCommit(w)
    PROVE  LedgerStep /\ \A o \in Orders : RowsOK(o)'
<1> PICK t : t = txn[w]
  OBVIOUS
<1> PICK S : S = t.closed
  OBVIOUS
<1>1. /\ t.o \in Orders /\ t.pc = "create_commit" /\ AloneOK(t)
      /\ S \in SUBSET Orders /\ \A o \in S : Expired(o) /\ Ledger!Late(o)
      /\ UNCHANGED <<refunded, plan, chan, now>>
  BY DEF CreateCommit, TypeOK, WellFormed, AloneInv, AloneOK, Expired, Pending, Age,
         Ledger!Late, Ledger!Pending
<1>2. order' = [Ledger!Closing(S) EXCEPT ![t.o] =
                  IF t.new THEN [st |-> "PENDING", created |-> now] ELSE @]
  BY DEF CreateCommit, CloseOrders, Ledger!Closing
<1>3. LedgerStep
  <2>1. CASE t.new
    <3>1. order[t.o].st = "none" /\ S = Rivals(t.o)
      BY <1>1, <2>1 DEF AloneOK
    <3>2. S = {p \in Orders : Offer[p] = Offer[t.o] /\ Ledger!Pending(p)}
      BY <3>1 DEF Rivals, Pending, Ledger!Pending
    <3>3. Ledger!Open(t.o)
      BY <1>1, <1>2, <2>1, <3>1, <3>2 DEF Ledger!Open
    <3> QED
      BY <1>1, <3>3 DEF LedgerStep, Ledger!Next
  <2>2. CASE ~t.new
    <3>1. order' = Ledger!Closing(S)
      BY <1>1, <1>2, <2>2 DEF Ledger!Closing
    <3>2. Ledger!Close(S)
      BY <1>1, <3>1 DEF Ledger!Close
    <3> QED
      BY <1>1, <3>2 DEF LedgerStep, Ledger!Next
  <2> QED
    BY <2>1, <2>2
<1>4. ASSUME NEW o \in Orders, ~HasSettled(o)' PROVE ~HasSettled(o)
  <2>1. CASE o = t.o /\ t.new
    BY <1>1, <2>1 DEF AloneOK, HasSettled
  <2>2. CASE ~(o = t.o /\ t.new)
    <3>1. order'[o] = Ledger!Closing(S)[o]
      BY <1>1, <1>2, <2>2 DEF Ledger!Closing
    <3>2. order'[o] = IF o \in S THEN [order[o] EXCEPT !.st = "CLOSED"] ELSE order[o]
      BY <3>1 DEF Ledger!Closing
    <3>3. o \in S => order[o].st = "PENDING"
      BY <1>1 DEF Expired, Pending
    <3> QED
      BY <1>4, <3>2, <3>3 DEF HasSettled
  <2> QED
    BY <2>1, <2>2
<1>5. ASSUME NEW o \in Orders PROVE RowsOK(o)'
  <2> PICK C : C = ClosePayments(S)
    OBVIOUS
  <2>1. /\ C \in [Orders -> Seq(Row)] /\ DOMAIN C[o] = DOMAIN rows[o]
        /\ rows' = [C EXCEPT ![t.o] = Append(@, PendingRow)]
    BY ClosePaymentsType DEF CreateCommit
  <2>2. ASSUME NEW i \in DOMAIN rows'[o], ~(i \in DOMAIN C[o] /\ rows'[o][i] = C[o][i])
        PROVE  rows'[o][i].st = "PENDING"
    <3>1. o = t.o
      BY <2>1, <2>2
    <3>2. C[o] \in Seq(Row) /\ rows'[o] = Append(C[o], PendingRow)
      BY <2>1, <3>1
    <3>3. rows'[o][i] = PendingRow
      BY <2>2, <3>2
    <3> QED
      BY <3>3 DEF PendingRow
  <2>3. ASSUME NEW i \in DOMAIN rows'[o], i \in DOMAIN C[o], rows'[o][i] = C[o][i],
               rows'[o][i].st \in {"SUCCEEDED", "REFUNDED"}
        PROVE  i \in DOMAIN rows[o] /\ rows[o][i].st \in {"SUCCEEDED", "REFUNDED"}
    <3>1. i \in DOMAIN rows[o]
      BY <2>1, <2>3
    <3> QED
      BY <2>3, <3>1, ClosedRows
  <2>4. RowsOK(o)
    BY DEF AloneInv
  <2> QED
    BY <1>4, <2>2, <2>3, <2>4 DEF RowsOK
<1> QED
  BY <1>3, <1>5

LEMMA SettleIsStep ==
    ASSUME TypeOK, SafeInv, AloneInv, NEW w, Workers = {w}, Settle(w)
    PROVE  LedgerStep /\ \A o \in Orders : RowsOK(o)'
<1> PICK t : t = txn[w]
  OBVIOUS
<1> PICK S : S = t.closed
  OBVIOUS
<1>1. /\ t \in Txn /\ t.o \in Orders /\ t.pc = "settle" /\ AloneOK(t) /\ chan[t.o].paid
      /\ t.row \in DOMAIN rows[t.o] /\ Owner(t.o) \in Users
  BY OwnerIsUser DEF Settle, TypeOK, WellFormed, AloneInv, SafeInv, RequestsOK, RequestOK
<1>2. /\ S \in SUBSET Orders /\ \A o \in S : Expired(o) /\ Ledger!Late(o)
  BY <1>1 DEF AloneOK, Expired, Pending, Age, Ledger!Late, Ledger!Pending
<1>3. /\ order[t.o].st \in {"PENDING", "CLOSED"} /\ order[t.o].st = t.st /\ ~HasSettled(t.o)
      /\ t.plan = plan[Owner(t.o)]
  <2>1. order[t.o] \in Order /\ order[t.o].st # "none"
    BY <1>1 DEF TypeOK, AloneInv, LedgerInv, OrderOK
  <2> QED
    BY <1>1, <2>1 DEF AloneOK, HasSettled, Order
<1>4. order' = [Ledger!Closing(S) EXCEPT ![t.o].st = "SUCCEEDED"]
  <2>1. order' = [CloseOrders(S) EXCEPT ![t.o].st = Write(@, t.st, "SUCCEEDED")]
    BY DEF Settle
  <2>2. \A x : Write(x, t.st, "SUCCEEDED") = "SUCCEEDED"
    BY <1>3 DEF Write
  <2>3. CloseOrders(S) = Ledger!Closing(S)
    BY DEF CloseOrders, Ledger!Closing
  <2> QED
    BY <2>1, <2>2, <2>3
<1>5. plan' = [plan EXCEPT ![Offer[t.o].user] = Ledger!Extended(@)]
  <2> PICK u : u = Owner(t.o)
    OBVIOUS
  <2>1. plan' = [plan EXCEPT ![u] = ActivatePlan(@, LoadedPlan(t))]
    BY DEF Settle
  <2>2. LoadedPlan(t) = plan[u]
    BY <1>3 DEF LoadedPlan
  <2>3. plan[u] \in UserPlan /\ now \in Nat /\ Period \in Nat
    BY <1>1, PriceFacts DEF TypeOK
  <2>4. ActivatePlan(plan[u], plan[u]) = Ledger!Extended(plan[u])
    BY <2>3 DEF ActivatePlan, Write, Ledger!Extended, UserPlan
  <2> QED
    BY <1>1, <2>1, <2>2, <2>4 DEF Owner, TypeOK
<1>6. refunded' = refunded
  <2>1. rows[t.o][t.row].st # "REFUNDED"
    BY <1>1, <1>3 DEF AloneInv, RowsOK
  <2> QED
    BY <1>1, <2>1 DEF Settle, TypeOK
<1>7. LedgerStep
  <2>1. Ledger!Settle(t.o, S)
    BY <1>1, <1>2, <1>3, <1>4, <1>5, <1>6 DEF Ledger!Settle, Settle
  <2> QED
    BY <1>1, <1>2, <2>1 DEF LedgerStep, Ledger!Next
<1>8. ASSUME NEW o \in Orders, ~HasSettled(o)' PROVE ~HasSettled(o) /\ o # t.o
  <2>1. CASE o = t.o
    <3>1. Ledger!Closing(S)[o] \in {order[o], [order[o] EXCEPT !.st = "CLOSED"]} /\ order[o] \in Order
      BY DEF Ledger!Closing, TypeOK
    <3>2. order'[o].st = "SUCCEEDED"
      BY <1>1, <1>4, <2>1, <3>1 DEF Ledger!Closing, Order
    <3> QED
      BY <1>8, <3>2 DEF HasSettled
  <2>2. CASE o # t.o
    <3>1. order'[o] = IF o \in S THEN [order[o] EXCEPT !.st = "CLOSED"] ELSE order[o]
      BY <1>4, <2>2 DEF Ledger!Closing
    <3>2. o \in S => order[o].st = "PENDING"
      BY <1>2 DEF Expired, Pending
    <3> QED
      BY <1>8, <2>2, <3>1, <3>2 DEF HasSettled
  <2> QED
    BY <2>1, <2>2
<1>9. ASSUME NEW o \in Orders PROVE RowsOK(o)'
  <2>1. CASE o = t.o
    BY <1>8, <2>1 DEF RowsOK
  <2>2. CASE o # t.o
    <3>1. rows'[o] = ClosePayments(S)[o]
      BY <2>2, ClosePaymentsType DEF Settle
    <3>2. DOMAIN rows'[o] = DOMAIN rows[o]
      BY <3>1, ClosePaymentsType
    <3> QED
      BY <1>8, <3>1, <3>2, ClosedRows DEF AloneInv, RowsOK
  <2> QED
    BY <2>1, <2>2
<1> QED
  BY <1>7, <1>9

LEMMA RefundIsStep ==
    ASSUME TypeOK, AloneInv, NEW w, Workers = {w}, RefundCommit(w)
    PROVE  LedgerStep /\ \A o \in Orders : RowsOK(o)'
<1> PICK t : t = txn[w]
  OBVIOUS
<1>1. /\ t \in Txn /\ t.o \in Orders /\ t.amt \in 1..Price /\ t.pc = "refund_commit" /\ AloneOK(t)
      /\ Owner(t.o) \in Users /\ refunded[t.o] \in Int /\ order[t.o] \in Order
      /\ UNCHANGED <<chan, now>>
  BY OwnerIsUser DEF RefundCommit, TypeOK, WellFormed, AloneInv
<1>2. /\ order[t.o].st = "SUCCEEDED" /\ t.amt + refunded[t.o] <= Price
      /\ t.full <=> t.amt + refunded[t.o] = Price
      /\ t.plan = plan[Owner(t.o)] /\ plan[Owner(t.o)].tier # "none"
      /\ plan[Owner(t.o)] \in UserPlan
  BY <1>1 DEF AloneOK, AloneInv, LedgerInv, OrderOK, HasSettled, TypeOK
<1>3. /\ refunded' = [refunded EXCEPT ![t.o] = @ + t.amt]
      /\ refunded'[t.o] = refunded[t.o] + t.amt
  BY <1>1 DEF RefundCommit, TypeOK
<1>4. t.amt \in Nat /\ (t.full <=> refunded'[t.o] = Price)
  BY <1>1, <1>2, <1>3, PriceFacts
<1>5. ASSUME t.full
      PROVE  /\ refunded'[t.o] = Price
             /\ order' = [order EXCEPT ![t.o].st = "REFUNDED"]
             /\ plan' = [plan EXCEPT ![Offer[t.o].user].tier = "free"]
  <2>1. order' = [order EXCEPT ![t.o].st = "REFUNDED"]
    BY <1>5 DEF RefundCommit
  <2>2. plan' = [plan EXCEPT ![Offer[t.o].user].tier = "free"]
    <3> PICK u : u = Owner(t.o)
      OBVIOUS
    <3>1. plan' = [plan EXCEPT ![u] = RevokePlan(@, t.plan)]
      BY <1>5 DEF RefundCommit
    <3>2. RevokePlan(plan[u], plan[u]) = [plan[u] EXCEPT !.tier = "free"]
      BY <1>2 DEF RevokePlan, Write, UserPlan
    <3> QED
      BY <1>1, <1>2, <3>1, <3>2 DEF Owner, TypeOK
  <2> QED
    BY <1>4, <1>5, <2>1, <2>2
<1>6. ASSUME ~t.full PROVE refunded'[t.o] # Price /\ UNCHANGED <<order, plan>>
  <2>1. order' = order
    <3> PICK st : st = order[t.o].st
      OBVIOUS
    <3>1. [order[t.o] EXCEPT !.st = st] = order[t.o]
      BY <1>1 DEF Order
    <3>2. order' = [order EXCEPT ![t.o].st = st]
      BY <1>6 DEF RefundCommit
    <3> QED
      BY <1>1, <3>1, <3>2 DEF TypeOK
  <2>2. plan' = plan
    BY <1>1, <1>6 DEF RefundCommit, TypeOK
  <2> QED
    BY <1>4, <1>6, <2>1, <2>2
<1>7. LedgerStep
  <2>1. Ledger!Refund(t.o, t.amt)
    BY <1>1, <1>2, <1>3, <1>4, <1>5, <1>6 DEF Ledger!Refund
  <2> QED
    BY <1>1, <2>1 DEF LedgerStep, Ledger!Next
<1>8. HasSettled(t.o)' /\ \A o \in Orders \ {t.o} : order'[o] = order[o] /\ rows'[o] = rows[o]
  <2>1. order'[t.o].st \in {"SUCCEEDED", "REFUNDED"}
    BY <1>1, <1>2 DEF RefundCommit, Order, TypeOK
  <2> QED
    BY <2>1 DEF HasSettled, RefundCommit, TypeOK
<1> QED
  BY <1>7, <1>8 DEF AloneInv, RowsOK, HasSettled


(* Every step of one request at a time is a step of the ledger or none,    *)
(* and keeps the invariant.                                                *)
LEMMA StepAlone ==
    ASSUME OneAtATime, AllEcho, TypeOK, TypeOK', SafeInv, AloneInv, [Next]_vars
    PROVE  AloneInv' /\ LedgerStep
<1> PICK w : Workers = {w}
  BY DEF OneAtATime
<1>1. ASSUME LedgerStep PROVE LedgerInv'
  BY <1>1, LedgerStepKeeps DEF LedgerStep, AloneInv
<1>2. ASSUME LedgerStep, \A o \in Orders : RowsOK(o)', AloneOK(txn[w])' PROVE AloneInv' /\ LedgerStep
  BY <1>1, <1>2 DEF AloneInv
<1>3. ASSUME Leave(w) PROVE AloneOK(txn[w])'
  <2>1. txn'[w] = NoTxn
    BY <1>3 DEF Leave, TypeOK
  <2> QED
    BY <2>1 DEF AloneOK, NoTxn
<1>4. AloneOK(txn[w]) /\ txn[w] \in Txn /\ WellFormed(txn[w])
  BY DEF AloneInv, TypeOK
<1>5. CASE Loading(w)
  <2>1. SamePaid /\ UNCHANGED <<order, refunded, plan, now>>
    BY <1>5 DEF SamePaid, Loading, CreateReuse, CreateNew, PollOrder, CallbackStart, RefundStart,
            QueryUnpaid, QueryPaid, QueryRefresh, CallbackOrder, CallbackPayment, CallbackMatch,
            SettleFails, RefundRefused, Abort
  <2> QED
    BY <1>5, <2>1, LoadingAlone, QuietLedger
<1>6. CASE CreateCommit(w)
  BY <1>2, <1>3, <1>6, CreateIsStep DEF CreateCommit
<1>7. CASE CreateReturn(w)
  <2>1. \A o \in txn[w].closed : o \in Orders /\ Expired(o)
    BY <1>4 DEF AloneOK
  <2> QED
    BY <1>2, <1>3, <1>7, <2>1, CloseIsStep DEF CreateReturn
<1>8. CASE PollClose(w)
  <2> PICK S : S = IF txn[w].st = "PENDING" /\ Age(txn[w].o) > PendingTimeout THEN {txn[w].o} ELSE {}
    OBVIOUS
  <2>1. \A o \in S : o \in Orders /\ Expired(o)
    BY <1>4, <1>8 DEF PollClose, AloneOK, WellFormed, Expired, Pending
  <2> QED
    BY <1>2, <1>3, <1>8, <2>1, CloseIsStep DEF PollClose
<1>9. CASE Settle(w)
  BY <1>2, <1>3, <1>9, SettleIsStep DEF Settle
<1>10. CASE RefundCommit(w)
  BY <1>2, <1>3, <1>10, RefundIsStep DEF RefundCommit
<1>11. ASSUME UNCHANGED <<order, rows, refunded, plan, now>>, SamePaid, AloneOK(txn[w])'
       PROVE  AloneInv' /\ LedgerStep
  <2>1. \A o \in Orders : RowsOK(o)'
    BY <1>11 DEF AloneInv, RowsOK, HasSettled
  <2> QED
    BY <1>2, <1>11, <2>1, QuietLedger
<1>12. CASE ChannelPlace(w)
  <2>1. SamePaid
    BY <1>4, <1>12 DEF SamePaid, ChannelPlace, TypeOK, PayTrade, WellFormed
  <2>2. /\ txn'[w].pc = "create_commit" /\ txn'[w].o = txn[w].o /\ txn'[w].new = txn[w].new
        /\ txn'[w].closed = txn[w].closed
    BY <1>4, <1>12 DEF ChannelPlace, TypeOK, Txn
  <2>3. AloneOK(txn[w])'
    BY <1>4, <1>12, <2>2 DEF ChannelPlace, AloneOK, Expired, Pending, Age, Rivals
  <2> QED
    BY <1>11, <1>12, <2>1, <2>3 DEF ChannelPlace
<1>13. CASE RefundCall(w)
  <2>1. SamePaid
    BY <1>4, <1>13 DEF SamePaid, RefundCall, TypeOK, PayTrade, WellFormed
  <2>2. \/ Leave(w)
        \/ /\ txn'[w].pc = "refund_commit" /\ txn'[w].o = txn[w].o /\ txn'[w].amt = txn[w].amt
           /\ txn'[w].full = txn[w].full /\ txn'[w].plan = txn[w].plan
           /\ txn'[w].closed = txn[w].closed
    BY <1>4, <1>13, SMTT(30) DEF RefundCall, TypeOK, Txn
  <2>3. AloneOK(txn[w])'
    BY <1>3, <1>4, <1>13, <2>2 DEF RefundCall, AloneOK, Expired, Pending, Age, Owner
  <2> QED
    BY <1>11, <1>13, <2>1, <2>3 DEF RefundCall
<1>14. ASSUME NEW o \in Orders, Pay(o) PROVE AloneInv' /\ LedgerStep
  <2>1. chan[o] \in PayTrade
    BY DEF TypeOK
  <2>2. [p \in Orders |-> chan[p].paid]' = [[p \in Orders |-> chan[p].paid] EXCEPT ![o] = TRUE]
    BY <1>14, <2>1 DEF Pay, TypeOK, PayTrade
  <2>3. Ledger!Pay(o)
    BY <1>14, <2>2 DEF Pay, Ledger!Pay
  <2>4. LedgerStep
    BY <2>3 DEF LedgerStep, Ledger!Next
  <2>5. (\A q \in Orders : RowsOK(q)') /\ AloneOK(txn[w])'
    BY <1>4, <1>14 DEF Pay, AloneInv, RowsOK, AloneOK, HasSettled, Expired, Pending, Age, Rivals, Owner
  <2> QED
    BY <1>2, <2>4, <2>5
<1>15. CASE Tick
  <2>1. Ledger!Tick
    BY <1>15 DEF Tick, Ledger!Tick
  <2>2. LedgerStep
    BY <2>1 DEF LedgerStep, Ledger!Next
  <2>3. txn[w].pc = "idle" /\ txn' = txn /\ order' = order /\ rows' = rows /\ now' = now + 1
    BY <1>15 DEF Tick, Idle
  <2>4. \A o \in Orders : Expired(o) => Expired(o)'
    BY <2>3, PaymentAssumption DEF Expired, Pending, Age, TypeOK, Order
  <2>5. (\A q \in Orders : RowsOK(q)') /\ AloneOK(txn[w])'
    BY <1>4, <2>3, <2>4 DEF AloneInv, RowsOK, AloneOK, HasSettled
  <2> QED
    BY <1>2, <2>2, <2>5
<1>16. CASE UNCHANGED vars
  <2>1. SamePaid /\ UNCHANGED <<order, rows, refunded, plan, now>>
    BY <1>16 DEF vars, SamePaid
  <2>2. AloneOK(txn[w])'
    BY <1>4, <1>16 DEF vars, AloneOK, HasSettled, Expired, Pending, Age, Rivals, Owner
  <2> QED
    BY <1>11, <2>1, <2>2
<1> QED
  BY <1>5, <1>6, <1>7, <1>8, <1>9, <1>10, <1>12, <1>13, <1>14, <1>15, <1>16
     DEF Next, Request, Step, Loading

LEMMA InitAlone == Init => AloneInv /\ Ledger!Init
<1>1. ASSUME Init PROVE AloneInv
  <2>1. LedgerInv /\ \A o \in Orders : RowsOK(o)
    BY <1>1, PriceFacts DEF Init, LedgerInv, NoRivals, InTime, Pending, OrderOK, HasSettled, RowsOK
  <2> QED
    BY <1>1, <2>1, NoTxnAlone DEF Init, AloneInv
<1>2. ASSUME Init PROVE Ledger!Init
  BY <1>2 DEF Init, Ledger!Init, NoPlan
<1> QED
  BY <1>1, <1>2

LEMMA AloneAlways ==
    ASSUME OneAtATime, AllEcho PROVE Spec => [](TypeOK /\ SafeInv /\ AloneInv)
<1>1. TypeOK /\ SafeInv /\ AloneInv /\ [Next]_vars => AloneInv'
  BY StepAlone, StepType
<1> QED
  BY InitAlone, TypeCorrect, Safety, <1>1, PTL DEF Spec

(* Requests that do not overlap implement the ledger: each takes effect at *)
(* the instant of its commit, whatever crashed, timed out, was repeated or *)
(* came late before it.                                                    *)
THEOREM LedgerImplemented == ASSUME OneAtATime, AllEcho PROVE Spec => ImplementsLedger
<1>1. TypeOK /\ SafeInv /\ AloneInv /\ [Next]_vars => LedgerStep
  BY StepAlone, StepType
<1> QED
  BY InitAlone, AloneAlways, <1>1, PTL DEF Spec, ImplementsLedger, Ledger!Spec, LedgerStep

SumIsFull == \A o \in Orders : order[o].st = "REFUNDED" <=> refunded[o] = Price

LEMMA AloneGives ==
    ASSUME TypeOK, AloneInv PROVE OneFreshPending /\ ClosedIsUnpaid /\ SumIsFull
<1>1. OneFreshPending
  <2>1. ASSUME NEW u \in Users, NEW p \in Products
        PROVE  Cardinality({o \in OrdersFor(u, p) : Pending(o) /\ ~Expired(o)}) <= 1
    <3> PICK F : F = {o \in OrdersFor(u, p) : Pending(o) /\ ~Expired(o)}
      OBVIOUS
    <3>1. \A o, q \in F : o = q
      BY DEF AloneInv, LedgerInv, NoRivals, InTime, OrdersFor
    <3>2. F = {} \/ \E o : F = {o}
      BY <3>1
    <3> QED
      <4>1. Cardinality({}) = 0 /\ \A o : Cardinality({o}) = 1
        BY FS_EmptySet, FS_Singleton
      <4>2. Cardinality(F) \in {0, 1}
        BY <3>2, <4>1
      <4> QED
        BY <4>2
  <2> QED
    BY <2>1 DEF OneFreshPending
<1>2. ClosedIsUnpaid
  BY DEF AloneInv, RowsOK, HasSettled, ClosedIsUnpaid
<1>3. SumIsFull
  <2>1. ASSUME NEW o \in Orders PROVE order[o].st = "REFUNDED" <=> refunded[o] = Price
    <3>1. OrderOK(o) /\ order[o] \in Order
      BY DEF AloneInv, LedgerInv, TypeOK
    <3> QED
      BY <3>1, PriceFacts DEF OrderOK, HasSettled, Order
  <2> QED
    BY <2>1 DEF SumIsFull
<1> QED
  BY <1>1, <1>2, <1>3

(* create_order never leaves two pending orders in time for one product.   *)
THEOREM NoSecondOrder == ASSUME OneAtATime, AllEcho PROVE Spec => []OneFreshPending
BY AloneAlways, AloneGives, PTL

(* No order that was paid and settled is ever closed for being late.       *)
THEOREM PaidNeverClosed == ASSUME OneAtATime, AllEcho PROVE Spec => []ClosedIsUnpaid
BY AloneAlways, AloneGives, PTL

LEMMA SumsAreFull == ASSUME OneAtATime, AllEcho PROVE Spec => []SumIsFull
BY AloneAlways, AloneGives, PTL


-----------------------------------------------------------------------------
(* What a step of the ledger may do to orders and plans.                   *)
StaysOrCloses(o) ==
    order'[o].st = order[o].st \/ (order[o].st = "PENDING" /\ order'[o].st = "CLOSED")

Settling(o) ==
    /\ order[o].st \in {"PENDING", "CLOSED"} /\ order'[o].st = "SUCCEEDED"
    /\ \A p \in Orders \ {o} : StaysOrCloses(p)
    /\ plan' = [plan EXCEPT ![Owner(o)] = Ledger!Extended(@)]

NothingSettles ==
    /\ \A o \in Orders : \/ StaysOrCloses(o)
                         \/ order[o].st = "none" /\ order'[o].st = "PENDING"
                         \/ order[o].st = "SUCCEEDED" /\ order'[o].st = "REFUNDED"
    /\ \A u \in Users : plan'[u].expires = plan[u].expires

LEMMA LedgerMoves ==
    ASSUME TypeOK, LedgerStep PROVE NothingSettles \/ \E o \in Orders : Settling(o)
<1>0. /\ \A o \in Orders : order[o] \in Order /\ Owner(o) \in Users /\ Owner(o) = Offer[o].user
      /\ \A u \in Users : plan[u] \in UserPlan
      /\ order \in [Orders -> Order] /\ plan \in [Users -> UserPlan]
  BY OwnerIsUser DEF TypeOK, Owner
<1>1. ASSUME NEW S \in SUBSET Orders, \A p \in S : Ledger!Late(p), NEW o \in Orders
      PROVE  /\ Ledger!Closing(S)[o] \in Order
             /\ \/ Ledger!Closing(S)[o].st = order[o].st
                \/ order[o].st = "PENDING" /\ Ledger!Closing(S)[o].st = "CLOSED"
  <2>1. /\ Ledger!Closing(S)[o] = IF o \in S THEN [order[o] EXCEPT !.st = "CLOSED"] ELSE order[o]
        /\ o \in S => order[o].st = "PENDING"
    BY <1>1, ClosingIs
  <2>2. order[o] \in Order
    BY <1>0
  <2> QED
    BY <2>1, <2>2 DEF Order
<1>2. ASSUME NEW o \in Orders, Ledger!Open(o) PROVE NothingSettles
  <2> PICK S : S = {p \in Orders : Offer[p] = Offer[o] /\ Ledger!Pending(p)}
    OBVIOUS
  <2>1. /\ order[o].st = "none" /\ UNCHANGED plan
        /\ order' = [Ledger!Closing(S) EXCEPT ![o] = [st |-> "PENDING", created |-> now]]
        /\ S \in SUBSET Orders /\ \A p \in S : Ledger!Late(p)
    BY <1>2 DEF Ledger!Open
  <2>2. order'[o].st = "PENDING" /\ \A p \in Orders \ {o} : order'[p] = Ledger!Closing(S)[p]
    BY <2>1 DEF Ledger!Closing
  <2> QED
    BY <1>1, <2>1, <2>2 DEF NothingSettles, StaysOrCloses
<1>3. ASSUME NEW S \in SUBSET Orders, Ledger!Close(S) PROVE NothingSettles
  <2>1. order' = Ledger!Closing(S) /\ UNCHANGED plan /\ \A p \in S : Ledger!Late(p)
    BY <1>3 DEF Ledger!Close
  <2> QED
    BY <1>1, <2>1 DEF NothingSettles, StaysOrCloses
<1>4. ASSUME NEW S \in SUBSET Orders, NEW o \in Orders, Ledger!Settle(o, S) PROVE Settling(o)
  <2>1. /\ order[o].st \in {"PENDING", "CLOSED"}
        /\ order' = [Ledger!Closing(S) EXCEPT ![o].st = "SUCCEEDED"]
        /\ plan' = [plan EXCEPT ![Offer[o].user] = Ledger!Extended(@)]
        /\ \A p \in S : Ledger!Late(p)
    BY <1>4 DEF Ledger!Settle
  <2>2. Ledger!Closing(S)[o] \in Order
    BY <1>1, <2>1
  <2>3. order'[o].st = "SUCCEEDED" /\ \A p \in Orders \ {o} : order'[p] = Ledger!Closing(S)[p]
    BY <2>1, <2>2 DEF Ledger!Closing, Order
  <2>4. \A p \in Orders \ {o} : StaysOrCloses(p)
    BY <1>1, <2>1, <2>3 DEF StaysOrCloses
  <2> QED
    BY <2>1, <2>3, <2>4 DEF Settling, Owner
<1>5. ASSUME NEW o \in Orders, NEW amt \in 1..Price, Ledger!Refund(o, amt) PROVE NothingSettles
  <2>1. CASE refunded'[o] = Price
    <3>1. /\ order[o].st = "SUCCEEDED" /\ order' = [order EXCEPT ![o].st = "REFUNDED"]
          /\ plan' = [plan EXCEPT ![Offer[o].user].tier = "free"]
      BY <1>5, <2>1 DEF Ledger!Refund
    <3>2. order'[o].st = "REFUNDED" /\ \A p \in Orders \ {o} : order'[p] = order[p]
      BY <1>0, <3>1 DEF Order
    <3>3. \A u \in Users : plan'[u].expires = plan[u].expires
      BY <1>0, <3>1 DEF UserPlan
    <3> QED
      BY <3>1, <3>2, <3>3 DEF NothingSettles, StaysOrCloses
  <2>2. CASE refunded'[o] # Price
    BY <1>5, <2>2 DEF Ledger!Refund, NothingSettles, StaysOrCloses
  <2> QED
    BY <2>1, <2>2
<1>6. CASE (\E o \in Orders : Ledger!Pay(o)) \/ Ledger!Tick \/ UNCHANGED Ledger!vars
  BY <1>6 DEF Ledger!Pay, Ledger!Tick, Ledger!vars, NothingSettles, StaysOrCloses
<1> QED
  BY <1>2, <1>3, <1>4, <1>5, <1>6 DEF LedgerStep, Ledger!Next

LEMMA FinalStep ==
    ASSUME TypeOK, LedgerStep
    PROVE  \A o \in Orders :
               /\ order[o].st = "SUCCEEDED" => order'[o].st \in {"SUCCEEDED", "REFUNDED"}
               /\ order[o].st = "REFUNDED" => order'[o].st = "REFUNDED"
BY LedgerMoves DEF NothingSettles, Settling, StaysOrCloses

(* A paid order is never closed, a refunded one never paid again.          *)
THEOREM SettledForGood == ASSUME OneAtATime, AllEcho PROVE Spec => SettledIsFinal
<1>1. TypeOK /\ SafeInv /\ AloneInv /\ [Next]_vars =>
        [\A o \in Orders :
            /\ order[o].st = "SUCCEEDED" => order'[o].st \in {"SUCCEEDED", "REFUNDED"}
            /\ order[o].st = "REFUNDED" => order'[o].st = "REFUNDED"]_vars
  BY StepAlone, StepType, FinalStep
<1> QED
  BY AloneAlways, <1>1, PTL DEF Spec, SettledIsFinal

(* The orders of user u that a step settles.                               *)
NewlySettled(u) == {o \in Orders : /\ Owner(o) = u
                                   /\ order[o].st # "SUCCEEDED" /\ order'[o].st = "SUCCEEDED"}

LEMMA ExtendStep ==
    ASSUME TypeOK, LedgerStep, NEW u \in Users
    PROVE  IF NewlySettled(u) = {} THEN plan'[u].expires = plan[u].expires
           ELSE /\ Cardinality(NewlySettled(u)) = 1
                /\ plan'[u].tier = "pro"
                /\ plan'[u].expires = Period + (IF plan[u].expires > now THEN plan[u].expires
                                                                         ELSE now)
<1>1. CASE NothingSettles
  <2>1. NewlySettled(u) = {}
    BY <1>1 DEF NothingSettles, NewlySettled, StaysOrCloses
  <2> QED
    BY <1>1, <2>1 DEF NothingSettles
<1>2. ASSUME NEW o \in Orders, Settling(o), Owner(o) = u
      PROVE  /\ NewlySettled(u) = {o} /\ plan'[u] = Ledger!Extended(plan[u])
  BY <1>2 DEF Settling, NewlySettled, StaysOrCloses, TypeOK
<1>3. ASSUME NEW o \in Orders, Settling(o), Owner(o) # u
      PROVE  NewlySettled(u) = {} /\ plan'[u] = plan[u]
  BY <1>3 DEF Settling, NewlySettled, StaysOrCloses, TypeOK
<1>4. \A o : Cardinality({o}) = 1 /\ {o} # {}
  BY FS_Singleton
<1>5. CASE \E o \in Orders : Settling(o)
  <2> PICK o \in Orders : Settling(o)
    BY <1>5
  <2>1. CASE Owner(o) = u
    <3>1. NewlySettled(u) # {} /\ Cardinality(NewlySettled(u)) = 1
      BY <1>2, <1>4, <2>1
    <3> QED
      BY <1>2, <2>1, <3>1 DEF Ledger!Extended
  <2>2. CASE Owner(o) # u
    BY <1>3, <2>2
  <2> QED
    BY <2>1, <2>2
<1> QED
  BY <1>1, <1>5, LedgerMoves

(* Every settlement adds exactly one period to the plan of its owner, and  *)
(* nothing else moves the date a plan expires at.                          *)
THEOREM PeriodsAdded == ASSUME OneAtATime, AllEcho PROVE Spec => ExtendedBySettlement
<1>1. TypeOK /\ SafeInv /\ AloneInv /\ [Next]_vars =>
        [\A u \in Users :
            LET S == {o \in Orders : /\ Owner(o) = u
                                     /\ order[o].st # "SUCCEEDED" /\ order'[o].st = "SUCCEEDED"}
            IN IF S = {} THEN plan'[u].expires = plan[u].expires
               ELSE /\ Cardinality(S) = 1
                    /\ plan'[u].tier = "pro"
                    /\ plan'[u].expires = Period + (IF plan[u].expires > now THEN plan[u].expires
                                                                             ELSE now)]_vars
  BY StepAlone, StepType, ExtendStep DEF NewlySettled
<1> QED
  BY AloneAlways, <1>1, PTL DEF Spec, ExtendedBySettlement


-----------------------------------------------------------------------------
(* Trades and orders, when some callbacks have to be matched by amount.    *)
(* An order may then be settled with the trade of another one, but no      *)
(* trade is ever used twice.                                               *)
IsPaid(o) == \E i \in DOMAIN rows[o] : rows[o][i].st = "SUCCEEDED"

TradeOf(o, t) ==
    \E i \in DOMAIN rows[o] : rows[o][i].trade = t /\ rows[o][i].st = "SUCCEEDED"

PaidTrade(t) == t \in Orders /\ chan[t].paid

(* The trade a request brings is paid and not settled by any row yet, and  *)
(* the row it is going to settle is not SUCCEEDED.                         *)
TradeOK(t) ==
    /\ t.pc \in {"cb_order", "cb_match", "cb_payment", "settle"} => PaidTrade(t.trade) /\ ~Settled(t.trade)
    /\ t.pc \in {"poll_query", "create_query"} => t.trade = t.o
    /\ t.pc = "settle" => rows[t.o][t.row].st # "SUCCEEDED"
    /\ t.pc \in {"refund_call", "refund_commit"} => IsPaid(t.o)

TradesOK ==
    /\ \A o, t \in Orders : TradeOf(o, t) => chan[t].paid
    /\ \A o, p, t \in Orders : TradeOf(o, t) /\ TradeOf(p, t) => o = p
    /\ \A o \in Orders : HasSettled(o) => IsPaid(o)
    /\ \A o \in Orders : IsPaid(o) => \E t \in Orders : TradeOf(o, t)

TradesInv == TradesOK /\ \A w \in Workers : TradeOK(txn[w])

LEMMA SettledBy == \A t : Settled(t) <=> \E o \in Orders : TradeOf(o, t)
BY DEF Settled, TradeOf

(* Steps that leave every SUCCEEDED row as it is.                          *)
SameTrades == \A o \in Orders : (IsPaid(o)' <=> IsPaid(o)) /\ \A t : TradeOf(o, t)' <=> TradeOf(o, t)

LEMMA TradesKept ==
    ASSUME TradesOK, SameTrades, PaidStays, \A o \in Orders : HasSettled(o)' => HasSettled(o) \/ IsPaid(o)
    PROVE  TradesOK'
BY DEF TradesOK, SameTrades, PaidStays

LEMMA NoTxnTrade == TradeOK(NoTxn)
BY DEF TradeOK, NoTxn

LEMMA BecomesTrade ==
    ASSUME TypeOK, TradesInv, NEW w, Workers = {w}, NEW t, TradeOK(t), Quiet,
           txn' = [txn EXCEPT ![w] = t]
    PROVE  TradesInv'
<1>1. txn'[w] = t
  BY DEF TypeOK
<1>2. TradeOK(txn[w])'
  BY <1>1 DEF TradeOK, PaidTrade, Settled, IsPaid, Quiet
<1>3. TradesOK'
  BY DEF TradesInv, TradesOK, TradeOf, IsPaid, HasSettled, Quiet
<1> QED
  BY <1>2, <1>3 DEF TradesInv

LEMMA LoadingTrades ==
    ASSUME TypeOK, TradesInv, NEW w, Workers = {w}, Loading(w) PROVE TradesInv'
<1>0. /\ txn[w] \in Txn /\ WellFormed(txn[w]) /\ TradeOK(txn[w])
      /\ \A o \in Orders : rows[o] \in Seq(Row)
  BY DEF TypeOK, TradesInv
<1>1. ASSUME NEW t, txn' = [txn EXCEPT ![w] = t], Quiet,
             t.pc \in {"idle", "create_place", "create_return", "poll_close"}
      PROVE  TradesInv'
  BY <1>1, BecomesTrade DEF TradeOK
<1>2. ASSUME NEW t, txn' = [txn EXCEPT ![w] = t], Quiet,
             t.pc \in {"poll_query", "create_query"}, t.trade = t.o
      PROVE  TradesInv'
  BY <1>2, BecomesTrade DEF TradeOK
<1>3. ASSUME NEW u \in Users, NEW p \in Products, CreateReuse(w, u, p) PROVE TradesInv'
  <2> PICK o \in Fresh(u, p) :
        txn' = [txn EXCEPT ![w] = [NoTxn EXCEPT !.pc = "create_query", !.o = o, !.trade = o,
                   !.st = "PENDING", !.plan = plan[u], !.closed = Stale(u, p)]]
    BY <1>3 DEF CreateReuse
  <2> DEFINE t == [NoTxn EXCEPT !.pc = "create_query", !.o = o, !.trade = o,
                      !.st = "PENDING", !.plan = plan[u], !.closed = Stale(u, p)]
  <2>1. t.pc = "create_query" /\ t.trade = t.o /\ txn' = [txn EXCEPT ![w] = t] /\ Quiet
    BY <1>3 DEF NoTxn, CreateReuse, Quiet
  <2> HIDE DEF t
  <2> QED
    BY <1>2, <2>1
<1>4. ASSUME NEW u \in Users, NEW p \in Products, CreateNew(w, u, p) PROVE TradesInv'
  <2> PICK o \in OrdersFor(u, p) :
        txn' = [txn EXCEPT ![w] = [NoTxn EXCEPT !.pc = "create_place", !.o = o,
                   !.new = TRUE, !.closed = Stale(u, p)]]
    BY <1>4 DEF CreateNew
  <2> DEFINE t == [NoTxn EXCEPT !.pc = "create_place", !.o = o,
                      !.new = TRUE, !.closed = Stale(u, p)]
  <2>1. t.pc = "create_place" /\ txn' = [txn EXCEPT ![w] = t] /\ Quiet
    BY <1>4 DEF NoTxn, CreateNew, Quiet
  <2> HIDE DEF t
  <2> QED
    BY <1>1, <2>1
<1>5. ASSUME NEW o \in Orders, PollOrder(w, o) PROVE TradesInv'
  <2> DEFINE t == [NoTxn EXCEPT !.pc = "poll_query", !.o = o, !.trade = o,
                      !.st = "PENDING", !.plan = plan[Owner(o)]]
  <2>1. t.pc = "poll_query" /\ t.trade = t.o /\ txn' = [txn EXCEPT ![w] = t] /\ Quiet
    BY <1>5 DEF NoTxn, PollOrder, Quiet
  <2> HIDE DEF t
  <2> QED
    BY <1>2, <2>1
<1>6. ASSUME NEW o \in Orders, NEW echo \in Echoes, CallbackStart(w, o, echo) PROVE TradesInv'
  <2> PICK pc : pc = IF echo THEN "cb_order" ELSE "cb_match"
    OBVIOUS
  <2> DEFINE t == [NoTxn EXCEPT !.trade = o, !.pc = pc]
  <2>1. txn' = [txn EXCEPT ![w] = t] /\ Quiet /\ PaidTrade(o) /\ ~Settled(o)
    BY <1>6 DEF CallbackStart, Quiet, PaidTrade
  <2>2. t.trade = o /\ t.pc \in {"cb_order", "cb_match"}
    BY DEF NoTxn
  <2> HIDE DEF t
  <2>3. TradeOK(t)
    BY <2>1, <2>2 DEF TradeOK
  <2> QED
    BY <2>1, <2>3, BecomesTrade
<1>7. ASSUME NEW o \in Orders, NEW amt \in 1..Price, RefundStart(w, o, amt) PROVE TradesInv'
  <2> PICK full : full = (amt + refunded[o] >= Price)
    OBVIOUS
  <2> DEFINE t == [NoTxn EXCEPT !.pc = "refund_call", !.o = o, !.amt = amt,
                      !.st = "SUCCEEDED", !.plan = plan[Owner(o)], !.full = full]
  <2>1. txn' = [txn EXCEPT ![w] = t] /\ Quiet /\ t.pc = "refund_call" /\ t.o = o
    BY <1>7 DEF RefundStart, Quiet, NoTxn
  <2>2. IsPaid(o)
    BY <1>7 DEF RefundStart, TradesInv, TradesOK, HasSettled
  <2> HIDE DEF t
  <2>3. TradeOK(t)
    BY <2>1, <2>2 DEF TradeOK
  <2> QED
    BY <2>1, <2>3, BecomesTrade
<1>8. CASE QueryUnpaid(w)
  <2> PICK pc : pc = IF txn[w].pc = "poll_query" THEN "poll_close" ELSE "create_place"
    OBVIOUS
  <2> DEFINE t == [txn[w] EXCEPT !.pc = pc]
  <2>1. txn' = [txn EXCEPT ![w] = t] /\ Quiet
    BY <1>8 DEF QueryUnpaid, Quiet, TypeOK
  <2>2. t.pc \in {"poll_close", "create_place"}
    BY <1>0 DEF Txn
  <2> HIDE DEF t
  <2> QED
    BY <1>1, <2>1, <2>2
<1>9. CASE QueryRefresh(w)
  <2> PICK st : st = order[txn[w].o].st
    OBVIOUS
  <2> PICK pc : pc = IF txn[w].pc = "poll_query" THEN "poll_close"
                     ELSE IF st = "PENDING" THEN "create_place" ELSE "create_return"
    OBVIOUS
  <2> DEFINE t == [txn[w] EXCEPT !.st = st, !.pc = pc]
  <2>1. txn' = [txn EXCEPT ![w] = t] /\ Quiet
    BY <1>9 DEF QueryRefresh, Quiet, TypeOK
  <2>2. t.pc \in {"poll_close", "create_place", "create_return"}
    BY <1>0 DEF Txn
  <2> HIDE DEF t
  <2> QED
    BY <1>1, <2>1, <2>2
<1>10. CASE QueryPaid(w)
  <2> DEFINE t == [txn[w] EXCEPT !.pc = "settle", !.row = Len(rows[txn[w].o])]
  <2>1. txn' = [txn EXCEPT ![w] = t] /\ Quiet
    BY <1>10 DEF QueryPaid, Quiet, TypeOK
  <2>2. /\ txn[w].pc \in Querying /\ txn[w].o \in Orders /\ chan[txn[w].o].paid
        /\ ~Settled(txn[w].o) /\ rows[txn[w].o][Len(rows[txn[w].o])].st # "SUCCEEDED"
    BY <1>0, <1>10 DEF QueryPaid, Querying, WellFormed, CanSettle
  <2>3. t.pc = "settle" /\ t.o = txn[w].o /\ t.trade = txn[w].trade /\ t.row = Len(rows[txn[w].o])
    BY <1>0 DEF Txn
  <2> HIDE DEF t
  <2>4. TradeOK(t)
    BY <1>0, <2>2, <2>3 DEF TradeOK, Querying, PaidTrade
  <2> QED
    BY <2>1, <2>4, BecomesTrade
<1>11. ASSUME Leave(w), Quiet PROVE TradesInv'
  BY <1>11, NoTxnTrade, BecomesTrade DEF Leave
<1>12. CASE CallbackOrder(w)
  <2> DEFINE t == [txn[w] EXCEPT !.pc = "cb_payment", !.o = txn[w].trade, !.st = order[txn[w].trade].st]
  <2>1. (Leave(w) \/ txn' = [txn EXCEPT ![w] = t]) /\ Quiet /\ txn[w].pc = "cb_order"
    BY <1>12 DEF CallbackOrder, Quiet, TypeOK
  <2>2. t.pc = "cb_payment" /\ t.trade = txn[w].trade
    BY <1>0 DEF Txn
  <2> HIDE DEF t
  <2>3. TradeOK(t)
    BY <1>0, <2>1, <2>2 DEF TradeOK
  <2> QED
    BY <1>11, <2>1, <2>3, BecomesTrade
<1>13. CASE CallbackPayment(w)
  <2> DEFINE o == txn[w].o
             t == [txn[w] EXCEPT !.pc = "settle", !.row = Len(rows[o]), !.plan = plan[Owner(o)]]
  <2>1. CASE CanSettle(o)
    <3>1. /\ txn' = [txn EXCEPT ![w] = t] /\ Quiet /\ txn[w].pc = "cb_payment"
          /\ rows[o][Len(rows[o])].st # "SUCCEEDED"
      BY <1>13, <2>1 DEF CallbackPayment, Quiet, TypeOK, CanSettle
    <3>2. t.pc = "settle" /\ t.trade = txn[w].trade /\ t.o = txn[w].o /\ t.row = Len(rows[o])
      BY <1>0 DEF Txn
    <3> HIDE DEF t
    <3>3. TradeOK(t)
      BY <1>0, <3>1, <3>2 DEF TradeOK
    <3> QED
      BY <3>1, <3>3, BecomesTrade
  <2>2. CASE ~CanSettle(o)
    BY <1>11, <1>13, <2>2 DEF CallbackPayment, Quiet
  <2> QED
    BY <2>1, <2>2
<1>14. CASE CallbackMatch(w)
  <2>1. CASE \E c \in Candidates : Candidates = {c}
    <3> PICK c : c = CHOOSE d \in Candidates : TRUE
      OBVIOUS
    <3> DEFINE t == [txn[w] EXCEPT !.pc = "settle", !.o = c[1], !.row = c[2],
                        !.st = order[c[1]].st, !.plan = plan[Owner(c[1])]]
    <3>1. c \in Candidates
      BY <2>1
    <3>2. rows[c[1]][c[2]].st = "PENDING"
      BY <3>1 DEF Candidates
    <3>3. txn' = [txn EXCEPT ![w] = t] /\ Quiet /\ txn[w].pc = "cb_match"
      BY <1>14, <2>1 DEF CallbackMatch, Quiet, TypeOK
    <3>4. t.pc = "settle" /\ t.trade = txn[w].trade /\ t.o = c[1] /\ t.row = c[2]
      BY <1>0 DEF Txn
    <3> HIDE DEF t
    <3>5. TradeOK(t)
      BY <1>0, <3>2, <3>3, <3>4 DEF TradeOK
    <3> QED
      BY <3>3, <3>5, BecomesTrade
  <2>2. CASE ~\E c \in Candidates : Candidates = {c}
    BY <1>11, <1>14, <2>2 DEF CallbackMatch, Quiet
  <2> QED
    BY <2>1, <2>2
<1>15. CASE SettleFails(w) \/ RefundRefused(w) \/ Abort(w)
  BY <1>11, <1>15 DEF SettleFails, RefundRefused, Abort, Quiet
<1> QED
  BY <1>3, <1>4, <1>5, <1>6, <1>7, <1>8, <1>9, <1>10, <1>12, <1>13, <1>14, <1>15 DEF Loading


(* Closing rows and adding rows that are not SUCCEEDED changes no trade.   *)
LEMMA CloseTrades ==
    ASSUME TypeOK, NEW S, NEW o \in Orders, NEW i \in DOMAIN rows[o]
    PROVE  /\ i \in DOMAIN ClosePayments(S)[o]
           /\ ClosePayments(S)[o][i].trade = rows[o][i].trade
           /\ ClosePayments(S)[o][i].st = "SUCCEEDED" <=> rows[o][i].st = "SUCCEEDED"
BY ClosePaymentsType, ClosedRows

LEMMA AddTrades ==
    ASSUME NEW R \in [Orders -> Seq(Row)], NEW o \in Orders, NEW r \in Row, r.st # "SUCCEEDED",
           NEW Q, Q = [R EXCEPT ![o] = Append(@, r)], NEW p \in Orders, NEW i \in DOMAIN Q[p],
           Q[p][i].st = "SUCCEEDED"
    PROVE  i \in DOMAIN R[p] /\ Q[p][i] = R[p][i]
<1>1. CASE p # o
  BY <1>1
<1>2. CASE p = o
  <2>1. R[o] \in Seq(Row) /\ Q[p] = Append(R[o], r)
    BY <1>2
  <2>2. i \in 1..(Len(R[o]) + 1) /\ Len(R[o]) \in Nat /\ DOMAIN R[o] = 1..Len(R[o])
    BY <2>1
  <2>3. i # Len(R[o]) + 1
    BY <2>1, <2>2
  <2> QED
    BY <1>2, <2>1, <2>2, <2>3
<1> QED
  BY <1>1, <1>2

(* Two tables with the same SUCCEEDED rows have the same trades.           *)
LEMMA SameRowsSameTrades ==
    ASSUME \A o \in Orders : \A i \in DOMAIN rows[o] : rows[o][i].st = "SUCCEEDED" =>
               i \in DOMAIN rows'[o] /\ rows'[o][i].st = "SUCCEEDED" /\ rows'[o][i].trade = rows[o][i].trade,
           \A o \in Orders : \A i \in DOMAIN rows'[o] : rows'[o][i].st = "SUCCEEDED" =>
               i \in DOMAIN rows[o] /\ rows[o][i].st = "SUCCEEDED" /\ rows[o][i].trade = rows'[o][i].trade
    PROVE  SameTrades
BY DEF SameTrades, IsPaid, TradeOf

LEMMA SettleTrades ==
    ASSUME TypeOK, TradesInv, NEW w, Workers = {w}, Settle(w) PROVE TradesOK'
<1> PICK t : t = txn[w]
  OBVIOUS
<1> PICK C : C = ClosePayments(t.closed)
  OBVIOUS
<1>0. /\ t.o \in Orders /\ t \in Txn /\ t.row \in DOMAIN rows[t.o] /\ t.pc = "settle" /\ TradeOK(t)
      /\ TradesOK
  BY DEF TypeOK, WellFormed, TradesInv, Settle
<1>1. /\ PaidTrade(t.trade) /\ ~Settled(t.trade) /\ rows[t.o][t.row].st # "SUCCEEDED"
      /\ chan' = chan
  BY <1>0 DEF TradeOK, Settle
<1>2. C \in [Orders -> Seq(Row)] /\ \A o \in Orders : DOMAIN C[o] = DOMAIN rows[o]
  BY ClosePaymentsType
<1> DEFINE q == [C[t.o][t.row] EXCEPT !.st = "SUCCEEDED", !.trade = t.trade]
<1>3. rows' = [C EXCEPT ![t.o] = [C[t.o] EXCEPT ![t.row] = q]]
  BY <1>0, <1>2 DEF Settle
<1>4. q.st = "SUCCEEDED" /\ q.trade = t.trade
  <2>1. C[t.o][t.row] \in Row
    BY <1>0, <1>2
  <2> QED
    BY <2>1 DEF Row
<1> HIDE DEF q
<1>5. ASSUME NEW o \in Orders, NEW i
      PROVE  /\ i \in DOMAIN rows'[o] <=> i \in DOMAIN rows[o]
             /\ o = t.o /\ i = t.row => rows'[o][i] = q
             /\ ~(o = t.o /\ i = t.row) => rows'[o][i] = C[o][i]
  BY <1>0, <1>2, <1>3
<1>6. ASSUME NEW o \in Orders, NEW u
      PROVE  TradeOf(o, u)' <=> TradeOf(o, u) \/ (o = t.o /\ u = t.trade)
  <2>1. ASSUME TradeOf(o, u)' PROVE TradeOf(o, u) \/ (o = t.o /\ u = t.trade)
    <3> PICK i \in DOMAIN rows'[o] : rows'[o][i].trade = u /\ rows'[o][i].st = "SUCCEEDED"
      BY <2>1 DEF TradeOf
    <3>1. CASE o = t.o /\ i = t.row
      BY <1>4, <1>5, <3>1
    <3>2. CASE ~(o = t.o /\ i = t.row)
      <4>1. i \in DOMAIN rows[o] /\ rows'[o][i] = C[o][i]
        BY <1>5, <3>2
      <4>2. rows[o][i].trade = u /\ rows[o][i].st = "SUCCEEDED"
        BY <4>1, CloseTrades
      <4> QED
        BY <4>1, <4>2 DEF TradeOf
    <3> QED
      BY <3>1, <3>2
  <2>2. ASSUME TradeOf(o, u) PROVE TradeOf(o, u)'
    <3> PICK i \in DOMAIN rows[o] : rows[o][i].trade = u /\ rows[o][i].st = "SUCCEEDED"
      BY <2>2 DEF TradeOf
    <3>1. ~(o = t.o /\ i = t.row)
      BY <1>1
    <3>2. i \in DOMAIN rows'[o] /\ rows'[o][i] = C[o][i]
      BY <1>5, <3>1
    <3>3. rows'[o][i].trade = u /\ rows'[o][i].st = "SUCCEEDED"
      BY <3>2, CloseTrades
    <3> QED
      BY <3>2, <3>3 DEF TradeOf
  <2>3. TradeOf(t.o, t.trade)'
    <3>1. t.row \in DOMAIN rows'[t.o] /\ rows'[t.o][t.row] = q
      BY <1>0, <1>5
    <3> QED
      BY <1>4, <3>1 DEF TradeOf
  <2> QED
    BY <2>1, <2>2, <2>3
<1>7. \A o \in Orders : ~TradeOf(o, t.trade)
  BY <1>1, SettledBy
<1>8. \A o, u \in Orders : TradeOf(o, u)' => chan'[u].paid
  BY <1>0, <1>1, <1>6 DEF TradesOK, PaidTrade
<1>9. \A o, p, u \in Orders : TradeOf(o, u)' /\ TradeOf(p, u)' => o = p
  BY <1>0, <1>6, <1>7 DEF TradesOK
<1>10. ASSUME NEW o \in Orders, IsPaid(o) \/ o = t.o
       PROVE  IsPaid(o)' /\ \E u \in Orders : TradeOf(o, u)'
  <2>1. \E u \in Orders : TradeOf(o, u)'
    BY <1>0, <1>1, <1>6, <1>10 DEF TradesOK, PaidTrade
  <2> QED
    BY <2>1 DEF TradeOf, IsPaid
<1>11. ASSUME NEW o \in Orders, o # t.o PROVE (HasSettled(o)' => HasSettled(o)) /\ (IsPaid(o)' => IsPaid(o))
  <2>1. HasSettled(o)' => HasSettled(o)
    BY <1>11 DEF Settle, HasSettled, CloseOrders, TypeOK, Order
  <2>2. IsPaid(o)' => IsPaid(o)
    BY <1>5, <1>11, CloseTrades DEF IsPaid
  <2> QED
    BY <2>1, <2>2
<1>12. \A o \in Orders : HasSettled(o)' => IsPaid(o)'
  BY <1>0, <1>10, <1>11 DEF TradesOK
<1>13. \A o \in Orders : IsPaid(o)' => \E u \in Orders : TradeOf(o, u)'
  BY <1>10, <1>11
<1> QED
  BY <1>8, <1>9, <1>12, <1>13 DEF TradesOK

LEMMA StepTrades ==
    ASSUME OneAtATime, TypeOK, TradesInv, [Next]_vars PROVE TradesInv'
<1> PICK w : Workers = {w}
  BY DEF OneAtATime
<1>0. TradesOK /\ TradeOK(txn[w]) /\ WellFormed(txn[w]) /\ txn[w] \in Txn
  BY DEF TradesInv, TypeOK
<1>1. ASSUME Leave(w), TradesOK' PROVE TradesInv'
  <2>1. txn'[w] = NoTxn
    BY <1>1 DEF Leave, TypeOK
  <2> QED
    BY <1>1, <2>1 DEF TradesInv, TradeOK, NoTxn
<1>2. CASE Loading(w)
  BY <1>2, LoadingTrades
<1>3. CASE Settle(w)
  BY <1>1, <1>3, SettleTrades DEF Settle
<1>4. CASE CreateCommit(w)
  <2> PICK t : t = txn[w]
    OBVIOUS
  <2> PICK C : C = ClosePayments(t.closed)
    OBVIOUS
  <2>1. /\ t.o \in Orders /\ C \in [Orders -> Seq(Row)]
        /\ rows' = [C EXCEPT ![t.o] = Append(@, PendingRow)]
        /\ PendingRow \in Row /\ PendingRow.st # "SUCCEEDED"
    BY <1>0, <1>4, ClosePaymentsType, PendingRowType DEF CreateCommit, WellFormed, PendingRow
  <2>2. \A p \in Orders : \A i \in DOMAIN C[p] : i \in DOMAIN rows'[p] /\ rows'[p][i] = C[p][i]
    BY <2>1, AppendType
  <2>3. \A p \in Orders : \A i \in DOMAIN rows'[p] :
          rows'[p][i].st = "SUCCEEDED" => i \in DOMAIN C[p] /\ rows'[p][i] = C[p][i]
    BY <2>1, AddTrades
  <2>4. \A p \in Orders : DOMAIN C[p] = DOMAIN rows[p]
    BY ClosePaymentsType
  <2>5. SameTrades
    <3>1. ASSUME NEW o \in Orders, NEW i \in DOMAIN rows[o], rows[o][i].st = "SUCCEEDED"
          PROVE  /\ i \in DOMAIN rows'[o] /\ rows'[o][i].st = "SUCCEEDED"
                 /\ rows'[o][i].trade = rows[o][i].trade
      BY <2>2, <3>1, CloseTrades
    <3>2. ASSUME NEW o \in Orders, NEW i \in DOMAIN rows'[o], rows'[o][i].st = "SUCCEEDED"
          PROVE  /\ i \in DOMAIN rows[o] /\ rows[o][i].st = "SUCCEEDED"
                 /\ rows[o][i].trade = rows'[o][i].trade
      BY <2>3, <2>4, <3>2, CloseTrades
    <3> QED
      BY <3>1, <3>2, SameRowsSameTrades
  <2>6. \A o \in Orders : HasSettled(o)' => HasSettled(o)
    <3>1. \A o \in Orders : \/ order'[o].st = "PENDING"
                            \/ order'[o] = CloseOrders(t.closed)[o]
      BY <1>4, <2>1 DEF CreateCommit, CloseOrders
    <3>2. \A o \in Orders : CloseOrders(t.closed)[o].st \in {"CLOSED", order[o].st}
      BY DEF CloseOrders, TypeOK, Order
    <3> QED
      BY <3>1, <3>2 DEF HasSettled
  <2>7. PaidStays /\ Leave(w)
    BY <1>4 DEF CreateCommit, PaidStays
  <2> QED
    BY <1>0, <1>1, <2>5, <2>6, <2>7, TradesKept
<1>5. ASSUME NEW S, order' = CloseOrders(S), rows' = ClosePayments(S), Leave(w), chan' = chan
      PROVE  TradesInv'
  <2>1. \A o \in Orders : DOMAIN rows'[o] = DOMAIN rows[o]
    BY <1>5, ClosePaymentsType
  <2>2. SameTrades
    BY <1>5, <2>1, CloseTrades, SameRowsSameTrades
  <2>3. \A o \in Orders : HasSettled(o)' => HasSettled(o)
    BY <1>5 DEF HasSettled, CloseOrders, TypeOK, Order
  <2>4. PaidStays
    BY <1>5 DEF PaidStays
  <2> QED
    BY <1>0, <1>1, <1>5, <2>2, <2>3, <2>4, TradesKept
<1>6. CASE CreateReturn(w) \/ PollClose(w)
  BY <1>5, <1>6 DEF CreateReturn, PollClose
<1>7. CASE RefundCommit(w)
  <2> PICK t : t = txn[w]
    OBVIOUS
  <2>1. /\ t.o \in Orders /\ t.amt \in 1..Price /\ IsPaid(t.o)
        /\ rows' = [rows EXCEPT ![t.o] = Append(@, RefundRow(t.amt))] /\ rows \in [Orders -> Seq(Row)]
    BY <1>0, <1>7 DEF RefundCommit, WellFormed, TradeOK, TypeOK
  <2>2. RefundRow(t.amt) \in Row /\ RefundRow(t.amt).st # "SUCCEEDED"
    BY <2>1, RefundRowType DEF RefundRow
  <2>3. \A p \in Orders : \A i \in DOMAIN rows[p] : i \in DOMAIN rows'[p] /\ rows'[p][i] = rows[p][i]
    BY <2>1, <2>2, AppendType
  <2>4. \A p \in Orders : \A i \in DOMAIN rows'[p] :
          rows'[p][i].st = "SUCCEEDED" => i \in DOMAIN rows[p] /\ rows'[p][i] = rows[p][i]
    BY <2>1, <2>2, AddTrades
  <2>5. SameTrades
    BY <2>3, <2>4, SameRowsSameTrades
  <2>6. \A o \in Orders : HasSettled(o)' => HasSettled(o) \/ IsPaid(o)
    BY <1>7, <2>1 DEF RefundCommit, HasSettled, TypeOK
  <2>7. PaidStays /\ Leave(w)
    BY <1>7 DEF RefundCommit, PaidStays
  <2> QED
    BY <1>0, <1>1, <2>5, <2>6, <2>7, TradesKept
<1>8. ASSUME UNCHANGED <<order, rows>>, PaidStays PROVE TradesOK'
  BY <1>0, <1>8 DEF TradesOK, PaidStays, TradeOf, IsPaid, HasSettled
<1>9. CASE ChannelPlace(w)
  <2>1. PaidStays
    BY <1>0, <1>9 DEF PaidStays, ChannelPlace, TypeOK, PayTrade, WellFormed
  <2>2. txn'[w].pc = "create_commit"
    BY <1>0, <1>9 DEF ChannelPlace, TypeOK, Txn
  <2> QED
    BY <1>8, <1>9, <2>1, <2>2 DEF ChannelPlace, TradesInv, TradeOK
<1>10. CASE RefundCall(w)
  <2>1. PaidStays
    BY <1>0, <1>10 DEF PaidStays, RefundCall, TypeOK, PayTrade, WellFormed
  <2>2. Leave(w) \/ (txn'[w].pc = "refund_commit" /\ txn'[w].o = txn[w].o)
    BY <1>0, <1>10 DEF RefundCall, TypeOK, Txn
  <2>3. IsPaid(txn[w].o)
    BY <1>0, <1>10 DEF RefundCall, TradeOK
  <2> QED
    BY <1>1, <1>8, <1>10, <2>1, <2>2, <2>3 DEF RefundCall, TradesInv, TradeOK, IsPaid
<1>11. CASE (\E o \in Orders : Pay(o)) \/ Tick \/ UNCHANGED vars
  <2>1. \A o \in Orders : chan[o] \in PayTrade
    BY DEF TypeOK
  <2>2. UNCHANGED <<order, rows, txn>> /\ PaidStays
    <3>1. ASSUME NEW o \in Orders, Pay(o) PROVE UNCHANGED <<order, rows, txn>> /\ PaidStays
      BY <2>1, <3>1 DEF Pay, PaidStays, TypeOK, PayTrade
    <3>2. CASE Tick \/ UNCHANGED vars
      BY <3>2 DEF Tick, vars, PaidStays
    <3> QED
      BY <1>11, <3>1, <3>2
  <2>3. TradeOK(txn[w])'
    BY <1>0, <2>2 DEF TradeOK, PaidTrade, PaidStays, Settled, IsPaid
  <2> QED
    BY <1>8, <2>2, <2>3 DEF TradesInv
<1> QED
  BY <1>2, <1>3, <1>4, <1>6, <1>7, <1>9, <1>10, <1>11 DEF Next, Request, Step, Loading

LEMMA InitTrades == Init => TradesInv
<1>1. ASSUME Init PROVE TradesInv
  <2>1. \A o \in Orders : DOMAIN rows[o] = {} /\ ~HasSettled(o)
    BY <1>1 DEF Init, HasSettled
  <2>2. TradesOK
    BY <2>1 DEF TradesOK, TradeOf, IsPaid
  <2> QED
    BY <1>1, <2>2, NoTxnTrade DEF Init, TradesInv
<1> QED
  BY <1>1

LEMMA TradesGive == ASSUME IsFiniteSet(Orders), TradesInv PROVE OneOrderPerTrade
<1>1. ASSUME NEW t \in Orders
      PROVE  Cardinality({o \in Orders : \E i \in DOMAIN rows[o] :
                        rows[o][i].trade = t /\ rows[o][i].st = "SUCCEEDED"}) <= 1
  <2> PICK F : F = {o \in Orders : \E i \in DOMAIN rows[o] :
                        rows[o][i].trade = t /\ rows[o][i].st = "SUCCEEDED"}
    OBVIOUS
  <2>1. \A o, q \in F : o = q
    BY DEF TradesInv, TradesOK, TradeOf
  <2>2. F = {} \/ \E o : F = {o}
    BY <2>1
  <2>3. Cardinality({}) = 0 /\ \A o : Cardinality({o}) = 1
    BY FS_EmptySet, FS_Singleton
  <2>4. Cardinality(F) \in {0, 1}
    BY <2>2, <2>3
  <2> QED
    BY <2>4
<1>2. Cardinality({o \in Orders : HasSettled(o)}) <= Cardinality({o \in Orders : chan[o].paid})
  <2> PICK A, B : A = {o \in Orders : HasSettled(o)} /\ B = {o \in Orders : chan[o].paid}
    OBVIOUS
  <2> DEFINE f == [o \in A |-> CHOOSE t \in Orders : TradeOf(o, t)]
  <2>1. ASSUME NEW o \in A PROVE f[o] \in B /\ TradeOf(o, f[o])
    <3>1. \E t \in Orders : TradeOf(o, t)
      BY DEF TradesInv, TradesOK
    <3>2. f[o] \in Orders /\ TradeOf(o, f[o])
      BY <3>1
    <3> QED
      BY <3>2 DEF TradesInv, TradesOK
  <2>2. \A o, p \in A : f[o] = f[p] => o = p
    BY <2>1 DEF TradesInv, TradesOK
  <2>3. f \in Injection(A, B)
    BY <2>1, <2>2 DEF Injection, IsInjective
  <2>4. IsFiniteSet(B)
    BY FS_Subset
  <2> HIDE DEF f
  <2> QED
    BY <2>3, <2>4, FS_Injection
<1> QED
  BY <1>1, <1>2 DEF OneOrderPerTrade

(* No trade settles two orders, and no more orders are settled than trades *)
(* were paid, also when a callback that does not name its order is matched *)
(* with another one of the same amount.                                    *)
THEOREM TradesUsedOnce == ASSUME OneAtATime, IsFiniteSet(Orders) PROVE Spec => []OneOrderPerTrade
<1>1. TypeOK /\ TradesInv /\ [Next]_vars => TradesInv'
  BY StepTrades
<1>2. TradesInv => OneOrderPerTrade
  BY TradesGive
<1> QED
  BY InitTrades, TypeCorrect, <1>1, <1>2, PTL DEF Spec


-----------------------------------------------------------------------------
(* The sum that refund_order asks the table for.                           *)
UnitsOK(o) == IsFiniteSet(Units(rows[o])) /\ refunded[o] = Cardinality(Units(rows[o]))

UnitsInv == \A o \in Orders : UnitsOK(o)

LEMMA UnitIs ==
    ASSUME NEW s, NEW e
    PROVE  e \in Units(s) <=> \E i \in DOMAIN s : s[i].st = "REFUNDED" /\ e \in {i} \X (1..s[i].amt)
BY DEF Units

LEMMA UnitsApart ==
    ASSUME NEW i, NEW j, NEW A, NEW B, NEW e \in {i} \X A, e \in {j} \X B PROVE i = j
OBVIOUS

LEMMA UnitsRemoved ==
    ASSUME NEW s, NEW t, NEW i \in DOMAIN s, s[i].st = "REFUNDED", DOMAIN t = DOMAIN s, t[i].st # "REFUNDED",
           \A j \in DOMAIN s : j # i =>
               /\ t[j].st = "REFUNDED" <=> s[j].st = "REFUNDED"
               /\ t[j].amt = s[j].amt
    PROVE  Units(t) = Units(s) \ ({i} \X (1..s[i].amt))
<1>1. ASSUME NEW e \in Units(t) PROVE e \in Units(s) /\ e \notin {i} \X (1..s[i].amt)
  <2>1. PICK j \in DOMAIN t : t[j].st = "REFUNDED" /\ e \in {j} \X (1..t[j].amt)
    BY <1>1, UnitIs
  <2>2. s[j].st = "REFUNDED" /\ e \in {j} \X (1..s[j].amt) /\ j # i
    BY <2>1
  <2>3. e \in Units(s)
    BY <2>1, <2>2, UnitIs
  <2> QED
    BY <2>2, <2>3, UnitsApart
<1>2. ASSUME NEW e \in Units(s), e \notin {i} \X (1..s[i].amt) PROVE e \in Units(t)
  <2>1. PICK j \in DOMAIN s : s[j].st = "REFUNDED" /\ e \in {j} \X (1..s[j].amt)
    BY <1>2, UnitIs
  <2>2. j # i
    BY <1>2, <2>1
  <2>3. t[j].st = "REFUNDED" /\ e \in {j} \X (1..t[j].amt)
    BY <2>1, <2>2
  <2> QED
    BY <2>1, <2>3, UnitIs
<1> QED
  BY <1>1, <1>2

LEMMA UnitsAdded ==
    ASSUME NEW s, NEW t, NEW n, n \notin DOMAIN s, DOMAIN t = DOMAIN s \cup {n}, t[n].st = "REFUNDED",
           \A j \in DOMAIN s : t[j] = s[j]
    PROVE  /\ Units(t) = Units(s) \cup ({n} \X (1..t[n].amt))
           /\ Units(s) \cap ({n} \X (1..t[n].amt)) = {}
<1>1. ASSUME NEW e \in Units(t) PROVE e \in Units(s) \/ e \in {n} \X (1..t[n].amt)
  <2>1. PICK j \in DOMAIN t : t[j].st = "REFUNDED" /\ e \in {j} \X (1..t[j].amt)
    BY <1>1, UnitIs
  <2>2. j \in DOMAIN s => s[j].st = "REFUNDED" /\ e \in {j} \X (1..s[j].amt)
    BY <2>1
  <2> QED
    BY <2>1, <2>2, UnitIs
<1>2. ASSUME NEW e, e \in Units(s) \/ e \in {n} \X (1..t[n].amt) PROVE e \in Units(t)
  <2>1. e \in Units(s) => \E j \in DOMAIN t : t[j].st = "REFUNDED" /\ e \in {j} \X (1..t[j].amt)
    BY UnitIs
  <2> QED
    BY <1>2, <2>1, UnitIs
<1>3. ASSUME NEW e \in Units(s), e \in {n} \X (1..t[n].amt) PROVE FALSE
  <2>1. PICK j \in DOMAIN s : e \in {j} \X (1..s[j].amt)
    BY <1>3, UnitIs
  <2> QED
    BY <1>3, <2>1, UnitsApart
<1> QED
  BY <1>1, <1>2, <1>3

LEMMA UnitsSame ==
    ASSUME NEW s, NEW t, DOMAIN s \subseteq DOMAIN t,
           \A j \in DOMAIN t : t[j].st = "REFUNDED" => j \in DOMAIN s,
           \A j \in DOMAIN s :
               /\ t[j].st = "REFUNDED" <=> s[j].st = "REFUNDED"
               /\ s[j].st = "REFUNDED" => t[j].amt = s[j].amt
    PROVE  Units(t) = Units(s)
<1>1. ASSUME NEW e \in Units(t) PROVE e \in Units(s)
  <2>1. PICK j \in DOMAIN t : t[j].st = "REFUNDED" /\ e \in {j} \X (1..t[j].amt)
    BY <1>1, UnitIs
  <2>2. j \in DOMAIN s /\ s[j].st = "REFUNDED" /\ e \in {j} \X (1..s[j].amt)
    BY <2>1
  <2> QED
    BY <2>2, UnitIs
<1>2. ASSUME NEW e \in Units(s) PROVE e \in Units(t)
  <2>1. PICK j \in DOMAIN s : s[j].st = "REFUNDED" /\ e \in {j} \X (1..s[j].amt)
    BY <1>2, UnitIs
  <2>2. j \in DOMAIN t /\ t[j].st = "REFUNDED" /\ e \in {j} \X (1..t[j].amt)
    BY <2>1
  <2> QED
    BY <2>2, UnitIs
<1> QED
  BY <1>1, <1>2

LEMMA UnitsKept ==
    ASSUME NEW o \in Orders, UnitsOK(o), refunded'[o] = refunded[o], DOMAIN rows[o] \subseteq DOMAIN rows'[o],
           \A i \in DOMAIN rows'[o] : rows'[o][i].st = "REFUNDED" => i \in DOMAIN rows[o],
           \A i \in DOMAIN rows[o] :
               /\ rows'[o][i].st = "REFUNDED" <=> rows[o][i].st = "REFUNDED"
               /\ rows[o][i].st = "REFUNDED" => rows'[o][i].amt = rows[o][i].amt
    PROVE  UnitsOK(o)'
<1>1. Units(rows'[o]) = Units(rows[o])
  BY UnitsSame
<1> QED
  BY <1>1 DEF UnitsOK

LEMMA CloseUnits ==
    ASSUME TypeOK, NEW S, NEW o \in Orders, NEW i \in DOMAIN rows[o]
    PROVE  /\ ClosePayments(S)[o][i].st = "REFUNDED" <=> rows[o][i].st = "REFUNDED"
           /\ ClosePayments(S)[o][i].amt = rows[o][i].amt
<1>1. rows[o][i] \in Row
  BY DEF TypeOK
<1> QED
  BY <1>1 DEF ClosePayments, Row

LEMMA CommitUnits ==
    ASSUME TypeOK, UnitsInv, NEW w \in Workers, CreateCommit(w) \/ CreateReturn(w) \/ PollClose(w)
    PROVE  UnitsInv'
<1>1. ASSUME NEW S, rows' = ClosePayments(S), UNCHANGED refunded PROVE UnitsInv'
  <2>1. \A o \in Orders : DOMAIN rows'[o] = DOMAIN rows[o]
    BY <1>1, ClosePaymentsType
  <2> QED
    BY <1>1, <2>1, CloseUnits, UnitsKept DEF UnitsInv
<1>2. CASE CreateCommit(w)
  <2> PICK t : t = txn[w]
    OBVIOUS
  <2> PICK C : C = ClosePayments(t.closed)
    OBVIOUS
  <2>1. /\ t.o \in Orders /\ C \in [Orders -> Seq(Row)] /\ UNCHANGED refunded
        /\ rows' = [C EXCEPT ![t.o] = Append(@, PendingRow)]
        /\ \A o \in Orders : DOMAIN C[o] = DOMAIN rows[o]
    BY <1>2, ClosePaymentsType DEF CreateCommit, TypeOK, WellFormed
  <2>2. \A p \in Orders : \A i \in DOMAIN C[p] : i \in DOMAIN rows'[p] /\ rows'[p][i] = C[p][i]
    BY <2>1, PendingRowType, AppendType
  <2>3. ASSUME NEW p \in Orders, NEW i \in DOMAIN rows'[p], rows'[p][i].st = "REFUNDED"
        PROVE  i \in DOMAIN rows[p]
    <3>1. CASE p # t.o
      BY <2>1, <3>1
    <3>2. CASE p = t.o
      <4>1. C[p] \in Seq(Row) /\ rows'[p] = Append(C[p], PendingRow)
        BY <2>1, <3>2
      <4>2. i \in DOMAIN C[p] \/ rows'[p][i] = PendingRow
        BY <4>1
      <4> QED
        BY <2>1, <2>3, <4>2 DEF PendingRow
    <3> QED
      BY <3>1, <3>2
  <2>4. ASSUME NEW p \in Orders PROVE UnitsOK(p)'
    <3>1. \A i \in DOMAIN rows[p] : rows'[p][i] = C[p][i]
      BY <2>1, <2>2
    <3>2. DOMAIN rows[p] \subseteq DOMAIN rows'[p]
      BY <2>1, <2>2
    <3>3. \A i \in DOMAIN rows[p] :
            /\ rows'[p][i].st = "REFUNDED" <=> rows[p][i].st = "REFUNDED"
            /\ rows[p][i].st = "REFUNDED" => rows'[p][i].amt = rows[p][i].amt
      BY <3>1, CloseUnits
    <3> QED
      BY <2>1, <2>3, <3>2, <3>3, UnitsKept DEF UnitsInv
  <2> QED
    BY <2>4 DEF UnitsInv
<1> QED
  BY <1>1, <1>2 DEF CreateReturn, PollClose

(* A refunded row that is settled after all stops counting as a refund.    *)
LEMMA SettleUnits ==
    ASSUME TypeOK, UnitsInv, NEW w \in Workers, Settle(w) PROVE UnitsInv'
<1> PICK t : t = txn[w]
  OBVIOUS
<1> PICK C, r : C = ClosePayments(t.closed) /\ r = rows[t.o][t.row]
  OBVIOUS
<1>0. t.o \in Orders /\ t.row \in DOMAIN rows[t.o] /\ rows[t.o] \in Seq(Row) /\ refunded \in [Orders -> Int]
  BY DEF TypeOK, WellFormed, Settle
<1>1. C \in [Orders -> Seq(Row)] /\ \A o \in Orders : DOMAIN C[o] = DOMAIN rows[o]
  BY ClosePaymentsType
<1> DEFINE q == [C[t.o][t.row] EXCEPT !.st = "SUCCEEDED", !.trade = t.trade]
<1>2. rows' = [C EXCEPT ![t.o] = [C[t.o] EXCEPT ![t.row] = q]]
  BY <1>0, <1>1 DEF Settle
<1>3. q.st = "SUCCEEDED"
  <2>1. C[t.o][t.row] \in Row
    BY <1>0, <1>1
  <2> QED
    BY <2>1 DEF Row
<1> HIDE DEF q
<1>4. ASSUME NEW o \in Orders, NEW i
      PROVE  /\ i \in DOMAIN rows'[o] <=> i \in DOMAIN rows[o]
             /\ o = t.o /\ i = t.row => rows'[o][i].st = "SUCCEEDED"
             /\ ~(o = t.o /\ i = t.row) => rows'[o][i] = C[o][i]
  BY <1>0, <1>1, <1>2, <1>3
<1>5. ASSUME NEW o \in Orders, o # t.o \/ r.st # "REFUNDED" PROVE UnitsOK(o)'
  <2>1. refunded'[o] = refunded[o]
    BY <1>0, <1>5 DEF Settle
  <2>2. \A i \in DOMAIN rows[o] :
            /\ rows'[o][i].st = "REFUNDED" <=> rows[o][i].st = "REFUNDED"
            /\ rows[o][i].st = "REFUNDED" => rows'[o][i].amt = rows[o][i].amt
    BY <1>4, <1>5, CloseUnits
  <2>3. DOMAIN rows'[o] = DOMAIN rows[o]
    BY <1>4
  <2> QED
    BY <2>1, <2>2, <2>3, UnitsKept DEF UnitsInv
<1>6. CASE r.st = "REFUNDED"
  <2> PICK o \in Orders : o = t.o
    BY <1>0
  <2> PICK Gone : Gone = {t.row} \X (1..r.amt)
    OBVIOUS
  <2>1. r.amt \in 1..Price /\ refunded'[o] = refunded[o] - r.amt
    <3>1. r \in Row
      BY <1>0
    <3> QED
      BY <1>0, <1>6, <3>1 DEF Settle, Row
  <2>2. IsFiniteSet(Gone) /\ Cardinality(Gone) = r.amt
    BY <2>1, PostsCount
  <2>3. Units(rows'[o]) = Units(rows[o]) \ Gone
    <3>1. \A i \in DOMAIN rows[o] : i # t.row =>
            /\ rows'[o][i].st = "REFUNDED" <=> rows[o][i].st = "REFUNDED"
            /\ rows'[o][i].amt = rows[o][i].amt
      BY <1>4, CloseUnits
    <3>2. /\ DOMAIN rows'[o] = DOMAIN rows[o] /\ rows'[o][t.row].st # "REFUNDED"
          /\ t.row \in DOMAIN rows[o] /\ rows[o][t.row].st = "REFUNDED" /\ rows[o][t.row].amt = r.amt
      BY <1>0, <1>4, <1>6
    <3> QED
      BY <3>1, <3>2, UnitsRemoved
  <2>4. Gone \subseteq Units(rows[o])
    <3>1. t.row \in DOMAIN rows[o] /\ rows[o][t.row].st = "REFUNDED" /\ rows[o][t.row].amt = r.amt
      BY <1>0, <1>6
    <3> QED
      BY <3>1, UnitIs
  <2>5. Units(rows[o]) \cap Gone = Gone
    BY <2>4
  <2>6. IsFiniteSet(Units(rows[o])) /\ refunded[o] = Cardinality(Units(rows[o]))
    BY DEF UnitsInv, UnitsOK
  <2>7. /\ IsFiniteSet(Units(rows[o]) \ Gone)
        /\ Cardinality(Units(rows[o]) \ Gone) = Cardinality(Units(rows[o])) - Cardinality(Units(rows[o]) \cap Gone)
    BY <2>6, FS_Difference
  <2>8. UnitsOK(o)'
    BY <2>1, <2>2, <2>3, <2>5, <2>6, <2>7, ZenonT(60) DEF UnitsOK
  <2> QED
    BY <1>5, <2>8 DEF UnitsInv
<1> QED
  BY <1>5, <1>6 DEF UnitsInv

LEMMA RecordUnits ==
    ASSUME TypeOK, UnitsInv, NEW w \in Workers, RefundCommit(w) PROVE UnitsInv'
<1> PICK t : t = txn[w]
  OBVIOUS
<1>0. /\ t.o \in Orders /\ t.amt \in 1..Price /\ rows \in [Orders -> Seq(Row)]
      /\ rows' = [rows EXCEPT ![t.o] = Append(@, RefundRow(t.amt))]
      /\ refunded' = [refunded EXCEPT ![t.o] = @ + t.amt] /\ refunded \in [Orders -> Int]
  BY DEF TypeOK, WellFormed, RefundCommit
<1>1. ASSUME NEW o \in Orders, o # t.o PROVE UnitsOK(o)'
  BY <1>0, <1>1, UnitsKept DEF UnitsInv
<1>2. ASSUME NEW o \in Orders, o = t.o PROVE UnitsOK(o)'
  <2> PICK n : n = Len(rows[o]) + 1
    OBVIOUS
  <2> PICK New : New = {n} \X (1..t.amt)
    OBVIOUS
  <2>1. /\ DOMAIN rows'[o] = DOMAIN rows[o] \cup {n} /\ n \notin DOMAIN rows[o]
        /\ rows'[o][n] = RefundRow(t.amt)
        /\ \A i \in DOMAIN rows[o] : rows'[o][i] = rows[o][i]
    <3>1. rows[o] \in Seq(Row) /\ rows'[o] = Append(rows[o], RefundRow(t.amt))
      BY <1>0, <1>2
    <3> QED
      BY <3>1
  <2>2. IsFiniteSet(New) /\ Cardinality(New) = t.amt
    BY <1>0, PostsCount
  <2>3. Units(rows'[o]) = Units(rows[o]) \cup New /\ Units(rows[o]) \cap New = {}
    <3>1. rows'[o][n].st = "REFUNDED" /\ rows'[o][n].amt = t.amt
      BY <2>1 DEF RefundRow
    <3> QED
      BY <2>1, <3>1, UnitsAdded
  <2>4. Units(rows[o]) \cap New = {}
    BY <2>3
  <2>5. IsFiniteSet(Units(rows[o])) /\ refunded[o] = Cardinality(Units(rows[o])) /\ refunded[o] \in Int
    BY <1>0 DEF UnitsInv, UnitsOK
  <2>6. /\ IsFiniteSet(Units(rows[o]) \cup New)
        /\ Cardinality(Units(rows[o]) \cup New)
             = Cardinality(Units(rows[o])) + Cardinality(New) - Cardinality(Units(rows[o]) \cap New)
    BY <2>2, <2>5, FS_Union, ZenonT(60)
  <2>7. Cardinality(Units(rows[o]) \cap New) = 0
    BY <2>4, FS_EmptySet
  <2>8. refunded'[o] = refunded[o] + t.amt /\ t.amt \in Int
    BY <1>0, <1>2, PriceFacts
  <2>9. Cardinality(Units(rows'[o])) = refunded[o] + t.amt
    BY <2>2, <2>3, <2>5, <2>6, <2>7, <2>8
  <2> QED
    BY <2>3, <2>6, <2>8, <2>9 DEF UnitsOK
<1> QED
  BY <1>1, <1>2 DEF UnitsInv

(* The variable is the sum of the rows.                                    *)
LEMMA SumIsKept == Spec => []UnitsInv
<1>1. TypeOK /\ UnitsInv /\ [Next]_vars => UnitsInv'
  <2>1. ASSUME TypeOK, UnitsInv, UNCHANGED <<rows, refunded>> PROVE UnitsInv'
    BY <2>1 DEF UnitsInv, UnitsOK
  <2>2. ASSUME TypeOK, UnitsInv, NEW w \in Workers, Loading(w) \/ ChannelPlace(w) \/ RefundCall(w)
        PROVE  UNCHANGED <<rows, refunded>>
    BY <2>2 DEF Loading, CreateReuse, CreateNew, PollOrder, CallbackStart, RefundStart,
            QueryUnpaid, QueryPaid, QueryRefresh, CallbackOrder, CallbackPayment, CallbackMatch,
            SettleFails, RefundRefused, Abort, ChannelPlace, RefundCall
  <2>3. ASSUME (\E o \in Orders : Pay(o)) \/ Tick \/ UNCHANGED vars PROVE UNCHANGED <<rows, refunded>>
    BY <2>3 DEF Pay, Tick, vars
  <2> QED
    BY <2>1, <2>2, <2>3, CommitUnits, SettleUnits, RecordUnits DEF Next, Request, Step, Loading
<1>2. Init => UnitsInv
  <2>1. ASSUME Init, NEW o \in Orders PROVE UnitsOK(o)
    <3>1. \A i \in DOMAIN rows[o] : FALSE
      BY <2>1 DEF Init
    <3>2. Units(rows[o]) = {} /\ refunded[o] = 0
      BY <2>1, <3>1, UnitIs DEF Init
    <3> QED
      BY <3>2, FS_EmptySet DEF UnitsOK
  <2> QED
    BY <2>1 DEF UnitsInv
<1> QED
  BY TypeCorrect, <1>1, <1>2, PTL DEF Spec

(* The REFUNDED rows of an order never add up to more than the channel has *)
(* returned, and no order is REFUNDED before all of its price went back,   *)
(* for any number of requests that overlap, crash, or are refused.         *)
THEOREM Refunds == Spec => []RefundsBacked
<1>1. TypeOK /\ RefundInv /\ UnitsInv => RefundsBacked
  BY RefundInvGives DEF RefundInv, UnitsInv, UnitsOK, SumBacked, RefundsBacked, RefundedIn
<1> QED
  BY RefundsAlways, SumIsKept, <1>1, PTL

(* An order is REFUNDED exactly when its REFUNDED rows add up to its price.*)
THEOREM FullRefunds == ASSUME OneAtATime, AllEcho PROVE Spec => []FullRefundIsRefunded
<1>1. SumIsFull /\ UnitsInv => FullRefundIsRefunded
  BY DEF SumIsFull, UnitsInv, UnitsOK, FullRefundIsRefunded, RefundedIn
<1> QED
  BY SumsAreFull, SumIsKept, <1>1, PTL
=============================================================================
