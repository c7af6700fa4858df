------------------------------ MODULE Payment ------------------------------
(***************************************************************************)
(* Orders, payment rows and plans of services/payment/service.py, driven   *)
(* by the routes of api/v1/billing.py and by the external pay channel.     *)
(*                                                                         *)
(* Every request runs in a database session of its own at READ COMMITTED.  *)
(* A worker is one such request: it loads rows, may call the channel, and  *)
(* commits.  An object a session has loaded stays as loaded until the end  *)
(* of the request (SQLAlchemy's identity map; Order.user and User.plan are *)
(* eager, so loading an order loads its owner's plan), a flush writes only *)
(* the columns whose value differs from the loaded one, and there is no    *)
(* SELECT ... FOR UPDATE anywhere.  txn[w] holds what worker w has loaded. *)
(*                                                                         *)
(* One channel, one price and one period stand for all of them; offer[o]   *)
(* keeps the owner and the product (tier, period, channel) an order is     *)
(* for, which is what decides whether a pending order is reused.           *)
(***************************************************************************)
EXTENDS Integers, Sequences, FiniteSets

CONSTANTS
    Workers,        \* requests that may be in progress at the same time
    Orders,         \* order ids (a trade at the channel has its order's id)
    NoOrder,        \* not an order id
    Users,
    Products,
    Offer,          \* order -> [user, product]
    Price,          \* of every product, in the smallest unit refunded
    Period,         \* what one paid order adds to a plan
    PendingTimeout, \* PENDING_TIMEOUT_MINUTES
    MatchWindow,    \* the 30 minutes of the match by amount
    Channel,        \* "wechat" or "alipay"
    Echoes,         \* whether a callback carries out_trade_no
    MaxClock, MaxRows

ASSUME PaymentAssumption ==
    /\ NoOrder \notin Orders
    /\ Offer \in [Orders -> [user : Users, product : Products]]
    /\ Price \in Nat \ {0}
    /\ MatchWindow \in Nat
    /\ PendingTimeout \in Nat /\ MatchWindow < PendingTimeout
    /\ Period \in Nat /\ PendingTimeout < Period
    /\ Channel \in {"wechat", "alipay"}
    /\ Echoes \subseteq BOOLEAN
    /\ MaxClock \in Nat
    /\ MaxRows \in Nat \ {0}

VARIABLES
    order,      \* orders table: order id -> [st, created]
    rows,       \* payments table: order id -> its rows, oldest first
    refunded,   \* order id -> what its REFUNDED rows add up to: a query, kept
                \* beside the rows (PaymentProofs: SumIsKept)
    plan,       \* user_plans table: user -> [tier, expires]
    chan,       \* the channel: order id -> [open, paid, refunded]
    txn,        \* worker -> request in progress
    now

vars == <<order, rows, refunded, plan, chan, txn, now>>

OrderStatus == {"none", "PENDING", "SUCCEEDED", "CLOSED", "REFUNDED"}
PaymentStatus == {"PENDING", "SUCCEEDED", "CLOSED", "REFUNDED"}
Order == [st : OrderStatus, created : Nat]
Row == [st : PaymentStatus, trade : Orders \cup {NoOrder}, amt : 1..Price, at : Nat]
UserPlan == [tier : {"none", "free", "pro"}, expires : Nat]
PayTrade == [open : BOOLEAN, paid : BOOLEAN, refunded : 0..Price]

Txn == [pc : {"idle", "create_query", "create_place", "create_commit", "create_return",
              "poll_query", "poll_close", "cb_order", "cb_payment", "cb_match", "settle",
              "refund_call", "refund_commit"},
        o : Orders \cup {NoOrder}, trade : Orders \cup {NoOrder}, st : OrderStatus,
        plan : UserPlan, row : Nat, new : BOOLEAN, closed : SUBSET Orders,
        amt : Nat, full : BOOLEAN]

NoPlan == [tier |-> "none", expires |-> 0]
NoTxn == [pc |-> "idle", o |-> NoOrder, trade |-> NoOrder, st |-> "none", plan |-> NoPlan,
          row |-> 0, new |-> FALSE, closed |-> {}, amt |-> 0, full |-> FALSE]

Init ==
    /\ order = [o \in Orders |-> [st |-> "none", created |-> 0]]
    /\ rows = [o \in Orders |-> <<>>]
    /\ refunded = [o \in Orders |-> 0]
    /\ plan \in [Users -> {NoPlan, [tier |-> "free", expires |-> 0]}]
    /\ chan = [o \in Orders |-> [open |-> FALSE, paid |-> FALSE, refunded |-> 0]]
    /\ txn = [w \in Workers |-> NoTxn]
    /\ now = 0

-----------------------------------------------------------------------------
Idle(w) == txn[w].pc = "idle"
Owner(o) == Offer[o].user
Age(o) == now - order[o].created
Pending(o) == order[o].st = "PENDING"
Expired(o) == Pending(o) /\ Age(o) > PendingTimeout

(* create_order flushes the orders it closes before it calls the channel:  *)
(* their rows stay locked until that request ends.                         *)
Unlocked(w, S) == \A v \in Workers \ {w} : txn[v].closed \cap S = {}

(* Fault: the first query of _mark_paid is left out.                       *)
NeverSettled(t) == FALSE

(* A row of trade t that is already settled: first query of _mark_paid.    *)
Settled(t) == \E o \in Orders : \E i \in DOMAIN rows[o] :
                  rows[o][i].trade = t /\ rows[o][i].st = "SUCCEEDED"

(* _close_order on every order of S.                                       *)
CloseOrders(S) == [o \in Orders |-> IF o \in S THEN [order[o] EXCEPT !.st = "CLOSED"]
                                               ELSE order[o]]
ClosePayments(S) ==
    [o \in Orders |->
        IF o \notin S THEN rows[o]
        ELSE [i \in DOMAIN rows[o] |->
                 IF rows[o][i].st = "PENDING" THEN [rows[o][i] EXCEPT !.st = "CLOSED"]
                                              ELSE rows[o][i]]]

(* A column is written only if its value differs from the loaded one.      *)
Write(stored, loaded, new) == IF new = loaded THEN stored ELSE new

(* Fault: the period is counted from now on, not from expires_at.          *)
ActivateFromNow(stored, p) == [tier |-> Write(stored.tier, p.tier, "pro"), expires |-> now + Period]

(* _activate_plan on the plan p the session has loaded.                    *)
ActivatePlan(stored, p) ==
    [tier |-> Write(stored.tier, p.tier, "pro"),
     expires |-> (IF p.expires > now THEN p.expires ELSE now) + Period]

(* Fault: a full refund leaves the plan alone.                             *)
RevokeNothing(stored, p) == stored

(* _revoke_plan: only the tier is taken away, expires_at is left alone.    *)
RevokePlan(stored, p) ==
    IF p.tier = "none" THEN stored
    ELSE [stored EXCEPT !.tier = Write(@, p.tier, "free")]

(* Fault: a row that was closed is not settled any more.                   *)
CanSettlePending(o) ==
    /\ rows[o] # <<>>
    /\ LET r == rows[o][Len(rows[o])] IN r.st = "PENDING" /\ r.amt = Price

(* The rest of _mark_paid once the order is known: its newest row must be  *)
(* unsettled and of the amount the channel reports.                        *)
CanSettle(o) ==
    /\ rows[o] # <<>>
    /\ LET r == rows[o][Len(rows[o])] IN r.st # "SUCCEEDED" /\ r.amt = Price

Leave(w) == txn' = [txn EXCEPT ![w] = NoTxn]

-----------------------------------------------------------------------------
(* POST /billing/orders.                                                   *)

OrdersFor(u, p) == {o \in Orders : Offer[o] = [user |-> u, product |-> p]}
(* Fault: old orders are closed whatever their status.                     *)
StaleAnyStatus(u, p) == {o \in OrdersFor(u, p) : order[o].st # "none" /\ Age(o) > PendingTimeout}
Stale(u, p) == {o \in OrdersFor(u, p) : Expired(o)}
(* Fault: off by one at the timeout.                                       *)
FreshStrictly(u, p) == {o \in OrdersFor(u, p) : Pending(o) /\ Age(o) < PendingTimeout}
Fresh(u, p) == {o \in OrdersFor(u, p) : Pending(o) /\ ~Expired(o)}

CreateReuse(w, u, p) ==
    /\ Idle(w)
    /\ Unlocked(w, Stale(u, p))
    /\ \E o \in Fresh(u, p) :
        /\ Len(rows[o]) < MaxRows
        /\ txn' = [txn EXCEPT ![w] = [NoTxn EXCEPT !.pc = "create_query", !.o = o,
                       !.trade = o, !.st = "PENDING", !.plan = plan[u],
                       !.closed = Stale(u, p)]]
    /\ UNCHANGED <<order, rows, refunded, plan, chan, now>>

CreateNew(w, u, p) ==
    /\ Idle(w)
    /\ Fresh(u, p) = {}
    /\ Unlocked(w, Stale(u, p))
    /\ \E o \in OrdersFor(u, p) :
        /\ order[o].st = "none"
        /\ \A v \in Workers : ~(txn[v].new /\ txn[v].o = o)
        /\ txn' = [txn EXCEPT ![w] = [NoTxn EXCEPT !.pc = "create_place", !.o = o,
                       !.new = TRUE, !.closed = Stale(u, p)]]
    /\ UNCHANGED <<order, rows, refunded, plan, chan, now>>

(* The channel takes the order; a refusal or a timeout is an Abort.        *)
ChannelPlace(w) ==
    /\ txn[w].pc = "create_place"
    /\ chan' = [chan EXCEPT ![txn[w].o].open = TRUE]
    /\ txn' = [txn EXCEPT ![w].pc = "create_commit"]
    /\ UNCHANGED <<order, rows, refunded, plan, now>>

PendingRow == [st |-> "PENDING", trade |-> NoOrder, amt |-> Price, at |-> now]

CreateCommit(w) ==
    LET t == txn[w] IN
    /\ t.pc = "create_commit"
    /\ order' = [CloseOrders(t.closed) EXCEPT ![t.o] =
                    IF t.new THEN [st |-> "PENDING", created |-> now] ELSE @]
    /\ rows' = [ClosePayments(t.closed) EXCEPT ![t.o] = Append(@, PendingRow)]
    /\ Leave(w)
    /\ UNCHANGED <<refunded, plan, chan, now>>

(* The reused order turned out to be settled: only the closing is saved.   *)
CreateReturn(w) ==
    LET t == txn[w] IN
    /\ t.pc = "create_return"
    /\ order' = CloseOrders(t.closed)
    /\ rows' = ClosePayments(t.closed)
    /\ Leave(w)
    /\ UNCHANGED <<refunded, plan, chan, now>>

-----------------------------------------------------------------------------
(* GET /billing/orders/{id}: query_and_sync_order, then close_if_expired.  *)
PollOrder(w, o) ==
    /\ Idle(w)
    /\ Pending(o)
    /\ txn' = [txn EXCEPT ![w] = [NoTxn EXCEPT !.pc = "poll_query", !.o = o, !.trade = o,
                   !.st = "PENDING", !.plan = plan[Owner(o)]]]
    /\ UNCHANGED <<order, rows, refunded, plan, chan, now>>

Querying == {"poll_query", "create_query"}

(* The channel says unpaid, is down, or answers with an error: the order   *)
(* is taken to be as it was loaded.                                        *)
QueryUnpaid(w) ==
    /\ txn[w].pc \in Querying
    /\ txn' = [txn EXCEPT ![w].pc = IF @ = "poll_query" THEN "poll_close" ELSE "create_place"]
    /\ UNCHANGED <<order, rows, refunded, plan, chan, now>>

(* Fault: any answer of the channel is taken for paid.                     *)
QueryAnyAnswer(w) ==
    LET t == txn[w] IN
    /\ t.pc \in Querying
    /\ ~Settled(t.o) /\ CanSettle(t.o)
    /\ txn' = [txn EXCEPT ![w].pc = "settle", ![w].row = Len(rows[t.o])]
    /\ UNCHANGED <<order, rows, refunded, plan, chan, now>>

(* The channel says paid: _mark_paid with the order as it was loaded.      *)
QueryPaid(w) ==
    LET t == txn[w] IN
    /\ t.pc \in Querying
    /\ chan[t.o].paid
    /\ ~Settled(t.o) /\ CanSettle(t.o)
    /\ txn' = [txn EXCEPT ![w].pc = "settle", ![w].row = Len(rows[t.o])]
    /\ UNCHANGED <<order, rows, refunded, plan, chan, now>>

(* The channel says paid, _mark_paid settles nothing (already settled, or  *)
(* refused) and the order is refreshed from the database.                  *)
QueryRefresh(w) ==
    LET t == txn[w]
        st == order[t.o].st
    IN
    /\ t.pc \in Querying
    /\ chan[t.o].paid
    /\ Settled(t.o) \/ ~CanSettle(t.o)
    /\ txn' = [txn EXCEPT ![w].st = st,
                          ![w].pc = IF @ = "poll_query" THEN "poll_close"
                                    ELSE IF st = "PENDING" THEN "create_place"
                                    ELSE "create_return"]
    /\ UNCHANGED <<order, rows, refunded, plan, chan, now>>

(* close_if_expired looks at the status this request knows of.             *)
PollClose(w) ==
    LET t == txn[w]
        closing == IF t.st = "PENDING" /\ Age(t.o) > PendingTimeout THEN {t.o} ELSE {}
    IN
    /\ t.pc = "poll_close"
    /\ Unlocked(w, closing)
    /\ order' = CloseOrders(closing)
    /\ rows' = ClosePayments(closing)
    /\ Leave(w)
    /\ UNCHANGED <<refunded, plan, chan, now>>

-----------------------------------------------------------------------------
(* The server hands header names over in lower case; wechat_notify copies  *)
(* them into a plain dict, where verify_callback looks for the capitalised *)
(* names.  The form of an Alipay callback arrives as it was sent.          *)
HeaderNames == {"wechatpay-timestamp", "wechatpay-nonce", "wechatpay-signature", "wechatpay-serial"}
Verified == Channel = "wechat" => "Wechatpay-Serial" \in HeaderNames

(* Fault: a callback is not asked whether it reports a success.            *)
CallbackAnyState(w, t, echo) ==
    /\ Idle(w)
    /\ Verified
    /\ chan[t].open
    /\ ~Settled(t)
    /\ txn' = [txn EXCEPT ![w] = [NoTxn EXCEPT !.trade = t,
                   !.pc = IF echo THEN "cb_order" ELSE "cb_match"]]
    /\ UNCHANGED <<order, rows, refunded, plan, chan, now>>

(* POST /billing/{wechat,alipay}/notify for a paid trade t.  A callback    *)
(* that fails verification, reports no success or is a duplicate changes   *)
(* nothing and is no step.                                                 *)
CallbackStart(w, t, echo) ==
    /\ Idle(w)
    /\ Verified
    /\ chan[t].paid
    /\ ~Settled(t)
    /\ txn' = [txn EXCEPT ![w] = [NoTxn EXCEPT !.trade = t,
                   !.pc = IF echo THEN "cb_order" ELSE "cb_match"]]
    /\ UNCHANGED <<order, rows, refunded, plan, chan, now>>

(* out_trade_no names the order.                                           *)
CallbackOrder(w) ==
    LET o == txn[w].trade IN
    /\ txn[w].pc = "cb_order"
    /\ IF order[o].st = "SUCCEEDED" THEN Leave(w)
       ELSE txn' = [txn EXCEPT ![w].pc = "cb_payment", ![w].o = o, ![w].st = order[o].st]
    /\ UNCHANGED <<order, rows, refunded, plan, chan, now>>

(* The owner's plan comes with the order, in a later SELECT; then the      *)
(* newest payment row.                                                     *)
CallbackPayment(w) ==
    LET o == txn[w].o IN
    /\ txn[w].pc = "cb_payment"
    /\ IF CanSettle(o)
       THEN txn' = [txn EXCEPT ![w].pc = "settle", ![w].row = Len(rows[o]),
                               ![w].plan = plan[Owner(o)]]
       ELSE Leave(w)
    /\ UNCHANGED <<order, rows, refunded, plan, chan, now>>

(* No out_trade_no: the only pending row of the amount in the window.      *)
Candidates ==
    {c \in UNION {{o} \X DOMAIN rows[o] : o \in Orders} :
        LET r == rows[c[1]][c[2]] IN
        r.st = "PENDING" /\ r.amt = Price /\ now - r.at <= MatchWindow}

CallbackMatch(w) ==
    /\ txn[w].pc = "cb_match"
    /\ IF \E c \in Candidates : Candidates = {c}
       THEN LET c == CHOOSE c \in Candidates : TRUE IN
            txn' = [txn EXCEPT ![w].pc = "settle", ![w].o = c[1], ![w].row = c[2],
                       ![w].st = order[c[1]].st, ![w].plan = plan[Owner(c[1])]]
       ELSE Leave(w)
    /\ UNCHANGED <<order, rows, refunded, plan, chan, now>>

(* _activate_plan selects the plan: one the session has loaded stays as it *)
(* was loaded, otherwise it gets what the table holds now.                 *)
LoadedPlan(t) == IF t.plan.tier = "none" THEN plan[Owner(t.o)] ELSE t.plan

(* Without a plan row the plan is inserted, and user_id is unique: if      *)
(* another request inserts it after that select, this one fails.           *)
PlanTaken(t) == t.plan.tier = "none" /\ plan[Owner(t.o)].tier # "none"

SettleFails(w) ==
    /\ txn[w].pc = "settle"
    /\ PlanTaken(txn[w])
    /\ Leave(w)
    /\ UNCHANGED <<order, rows, refunded, plan, chan, now>>

(* Fault: the settled row does not get the number of its trade.            *)
SettleWithoutTrade(w) ==
    LET t == txn[w]
        u == Owner(t.o)
        r == rows[t.o][t.row]
    IN
    /\ t.pc = "settle"
    /\ Unlocked(w, {t.o})
    /\ order' = [CloseOrders(t.closed) EXCEPT ![t.o].st = Write(@, t.st, "SUCCEEDED")]
    /\ rows' = [ClosePayments(t.closed) EXCEPT ![t.o][t.row].st = "SUCCEEDED"]
    /\ refunded' = [refunded EXCEPT ![t.o] = IF r.st = "REFUNDED" THEN @ - r.amt ELSE @]
    /\ plan' = [plan EXCEPT ![u] = ActivatePlan(@, LoadedPlan(t))]
    /\ Leave(w)
    /\ UNCHANGED <<chan, now>>

(* The writes of _mark_paid and the commit.                                *)
Settle(w) ==
    LET t == txn[w]
        u == Owner(t.o)
        r == rows[t.o][t.row]
    IN
    /\ t.pc = "settle"
    /\ Unlocked(w, {t.o})
    /\ order' = [CloseOrders(t.closed) EXCEPT ![t.o].st = Write(@, t.st, "SUCCEEDED")]
    /\ rows' = [ClosePayments(t.closed) EXCEPT
                   ![t.o][t.row] = [@ EXCEPT !.st = "SUCCEEDED", !.trade = t.trade]]
    /\ refunded' = [refunded EXCEPT ![t.o] = IF r.st = "REFUNDED" THEN @ - r.amt ELSE @]
    /\ plan' = [plan EXCEPT ![u] = ActivatePlan(@, LoadedPlan(t))]
    /\ Leave(w)
    /\ UNCHANGED <<chan, now>>

-----------------------------------------------------------------------------
(* Fault: a refund is full only if it is made at once.                     *)
RefundAtOnce(w, o, amt) ==
    /\ Idle(w)
    /\ order[o].st = "SUCCEEDED"
    /\ amt + refunded[o] <= Price
    /\ txn' = [txn EXCEPT ![w] = [NoTxn EXCEPT !.pc = "refund_call", !.o = o, !.amt = amt,
                   !.st = "SUCCEEDED", !.plan = plan[Owner(o)], !.full = (amt >= Price)]]
    /\ UNCHANGED <<order, rows, refunded, plan, chan, now>>

(* POST /billing/orders/{id}/refund.                                       *)
RefundStart(w, o, amt) ==
    /\ Idle(w)
    /\ order[o].st = "SUCCEEDED"
    /\ amt + refunded[o] <= Price
    /\ txn' = [txn EXCEPT ![w] = [NoTxn EXCEPT !.pc = "refund_call", !.o = o, !.amt = amt,
                   !.st = "SUCCEEDED", !.plan = plan[Owner(o)],
                   !.full = (amt + refunded[o] >= Price)]]
    /\ UNCHANGED <<order, rows, refunded, plan, chan, now>>

(* The code takes only the answer SUCCESS for done: the channel may also   *)
(* have returned the money and answered PROCESSING, which the code treats  *)
(* as a failure.                                                           *)
RefundCall(w) ==
    LET t == txn[w] IN
    /\ t.pc = "refund_call"
    /\ chan[t.o].refunded + t.amt <= Price
    /\ chan' = [chan EXCEPT ![t.o].refunded = @ + t.amt]
    /\ \/ txn' = [txn EXCEPT ![w].pc = "refund_commit"]
       \/ Leave(w)
    /\ UNCHANGED <<order, rows, refunded, plan, now>>

(* Fault: a refusal of the channel is not noticed.                         *)
RefusalIgnored(w) ==
    /\ txn[w].pc = "refund_call"
    /\ chan[txn[w].o].refunded + txn[w].amt > Price
    /\ txn' = [txn EXCEPT ![w].pc = "refund_commit"]
    /\ UNCHANGED <<order, rows, refunded, plan, chan, now>>

(* The channel never returns more than was paid.                           *)
RefundRefused(w) ==
    /\ txn[w].pc = "refund_call"
    /\ chan[txn[w].o].refunded + txn[w].amt > Price
    /\ Leave(w)
    /\ UNCHANGED <<order, rows, refunded, plan, chan, now>>

(* Fault: the row records the balance.                                     *)
BalanceRow(amt) == [st |-> "REFUNDED", trade |-> NoOrder, amt |-> Price - amt, at |-> now]

RefundRow(amt) == [st |-> "REFUNDED", trade |-> NoOrder, amt |-> amt, at |-> now]

RefundCommit(w) ==
    LET t == txn[w]
        u == Owner(t.o)
    IN
    /\ t.pc = "refund_commit"
    /\ Unlocked(w, {t.o})
    /\ rows' = [rows EXCEPT ![t.o] = Append(@, RefundRow(t.amt))]
    /\ refunded' = [refunded EXCEPT ![t.o] = @ + t.amt]
    /\ order' = [order EXCEPT ![t.o].st = IF t.full THEN "REFUNDED" ELSE @]
    /\ plan' = [plan EXCEPT ![u] = IF t.full THEN RevokePlan(@, t.plan) ELSE @]
    /\ Leave(w)
    /\ UNCHANGED <<chan, now>>

-----------------------------------------------------------------------------
(* Crash, lost connection, channel or database error: the session rolls    *)
(* back, what the channel has done stays done.                             *)
Abort(w) ==
    /\ ~Idle(w)
    /\ Leave(w)
    /\ UNCHANGED <<order, rows, refunded, plan, chan, now>>

(* The user pays at the channel, with a credential handed out for o.       *)
Pay(o) ==
    /\ chan[o].open /\ ~chan[o].paid
    /\ order[o].st # "none"
    /\ chan' = [chan EXCEPT ![o].paid = TRUE]
    /\ UNCHANGED <<order, rows, refunded, plan, txn, now>>

(* A unit of time is half an hour or more, a request takes seconds: its    *)
(* calls to the channel time out after ten.                                *)
Tick ==
    /\ now < MaxClock
    /\ \A w \in Workers : Idle(w)
    /\ now' = now + 1
    /\ UNCHANGED <<order, rows, refunded, plan, chan, txn>>

Step(w) ==
    \/ ChannelPlace(w) \/ CreateCommit(w) \/ CreateReturn(w)
    \/ QueryUnpaid(w) \/ QueryPaid(w) \/ QueryRefresh(w) \/ PollClose(w)
    \/ CallbackOrder(w) \/ CallbackPayment(w) \/ CallbackMatch(w) \/ Settle(w) \/ SettleFails(w)
    \/ RefundCall(w) \/ RefundRefused(w) \/ RefundCommit(w)

Request(w) ==
    \/ \E u \in Users, p \in Products : CreateReuse(w, u, p) \/ CreateNew(w, u, p)
    \/ \E o \in Orders : PollOrder(w, o)
    \/ \E t \in Orders, echo \in Echoes : CallbackStart(w, t, echo)
    \/ \E o \in Orders, amt \in 1..Price : RefundStart(w, o, amt)

Next ==
    \/ \E w \in Workers : Request(w) \/ Step(w) \/ Abort(w)
    \/ \E o \in Orders : Pay(o)
    \/ Tick

Spec == Init /\ [][Next]_vars
-----------------------------------------------------------------------------
(* Properties that hold whatever requests overlap, as long as callbacks    *)
(* carry out_trade_no.                                                     *)

(* The fields a request has filled in at each point.                       *)
WellFormed(t) ==
    /\ t.pc \notin {"idle", "cb_order", "cb_match"} => t.o \in Orders
    /\ t.pc \in {"cb_order", "cb_match"} => t.trade \in Orders
    /\ t.pc = "settle" => t.row \in DOMAIN rows[t.o]
    /\ t.pc \in {"refund_call", "refund_commit"} => t.amt \in 1..Price

(* Tables, channel and requests are well typed, and every request holds    *)
(* the fields that its next step uses, within the rows that exist.         *)
TypeOK ==
    /\ order \in [Orders -> Order]
    /\ rows \in [Orders -> Seq(Row)]
    /\ refunded \in [Orders -> Int]
    /\ plan \in [Users -> UserPlan]
    /\ chan \in [Orders -> PayTrade]
    /\ txn \in [Workers -> Txn]
    /\ now \in Nat
    /\ \A w \in Workers : WellFormed(txn[w])

HasSettled(o) == order[o].st \in {"SUCCEEDED", "REFUNDED"}

Receipt(o) == \E i \in DOMAIN rows[o] : rows[o][i].st = "SUCCEEDED" /\ rows[o][i].trade = o

(* An order counts as paid only if its own trade was paid at the channel:  *)
(* no callback, poll or re-order of another order can settle it.           *)
SettledOnlyIfPaid == \A o \in Orders : HasSettled(o) => chan[o].paid

(* A settled order has a payment row that carries its trade number, the    *)
(* key by which a repeated callback is recognised.                         *)
SettledHasReceipt == \A o \in Orders : HasSettled(o) => Receipt(o)

(* What the REFUNDED rows among s add up to: a row stands for as many      *)
(* units as its amount.                                                    *)
Units(s) == UNION {{i} \X (1..s[i].amt) : i \in {j \in DOMAIN s : s[j].st = "REFUNDED"}}
RefundedIn(s) == Cardinality(Units(s))

(* The REFUNDED rows never add up to more than the channel returned, and   *)
(* an order is REFUNDED only if everything was returned, whatever requests *)
(* crashed or overlapped between the channel call and the commit.          *)
RefundsBacked ==
    \A o \in Orders :
        /\ RefundedIn(rows[o]) <= chan[o].refunded
        /\ order[o].st = "REFUNDED" => chan[o].refunded = Price

(* A plan is paid for: its owner has an order whose trade was paid.        *)
ProIsPaid ==
    \A u \in Users : plan[u].tier = "pro" => \E o \in Orders : Owner(o) = u /\ chan[o].paid

(* What a request relies on between its steps, though every table may have *)
(* changed since it loaded its rows: the one that is about to settle does  *)
(* so for the order its trade is for and that trade is paid, the one that  *)
(* refunds does so for an order with a receipt.                            *)
RequestOK(t) ==
    /\ t.pc # "cb_match"
    /\ t.pc = "cb_order" => chan[t.trade].paid
    /\ t.pc \in {"poll_query", "create_query", "cb_payment", "settle"} => t.trade = t.o
    /\ t.pc \in {"cb_payment", "settle"} => chan[t.o].paid
    /\ t.pc \in {"refund_call", "refund_commit"} => chan[t.o].paid /\ Receipt(t.o)

RequestsOK == \A w \in Workers : RequestOK(txn[w])

(* A trade settles at most one order, and there are never more settled     *)
(* orders than paid trades, also when an order is matched by its amount.   *)
OneOrderPerTrade ==
    /\ \A t \in Orders :
        Cardinality({o \in Orders : \E i \in DOMAIN rows[o] :
                        rows[o][i].trade = t /\ rows[o][i].st = "SUCCEEDED"}) <= 1
    /\ Cardinality({o \in Orders : HasSettled(o)}) <= Cardinality({o \in Orders : chan[o].paid})

-----------------------------------------------------------------------------
(* Properties of requests that do not overlap.                             *)

(* create_order reuses: never two pending orders in time for one product.  *)
OneFreshPending ==
    \A u \in Users, p \in Products :
        Cardinality({o \in OrdersFor(u, p) : Pending(o) /\ ~Expired(o)}) <= 1

(* The plan of a user grows by one period exactly when one order of theirs *)
(* turns SUCCEEDED, counted from the stored expiry, and then it is pro.    *)
ExtendedBySettlement ==
    [][\A u \in Users :
        LET S == {o \in Orders : /\ Owner(o) = u
                                 /\ order[o].st # "SUCCEEDED" /\ order'[o].st = "SUCCEEDED"}
        IN IF S = {} THEN plan'[u].expires = plan[u].expires
           ELSE /\ Cardinality(S) = 1
                /\ plan'[u].tier = "pro"
                /\ plan'[u].expires = Period + (IF plan[u].expires > now THEN plan[u].expires
                                                                         ELSE now)]_vars

(* Every period that was paid for is in expires_at: no settlement of one   *)
(* order overwrites what the settlement of another one has just added.     *)
EveryPeriodCounted ==
    \A u \in Users :
        plan[u].expires >= Period * Cardinality({o \in Orders : Owner(o) = u /\ HasSettled(o)})

(* What was settled stays settled: a paid order is never closed, a         *)
(* refunded one never becomes paid again.                                  *)
SettledIsFinal ==
    [][\A o \in Orders :
        /\ order[o].st = "SUCCEEDED" => order'[o].st \in {"SUCCEEDED", "REFUNDED"}
        /\ order[o].st = "REFUNDED" => order'[o].st = "REFUNDED"]_vars

(* "Only pending orders not paid within two hours are closed": a closed    *)
(* order has no settled payment.                                           *)
ClosedIsUnpaid ==
    \A o \in Orders : order[o].st = "CLOSED" =>
        \A i \in DOMAIN rows[o] : rows[o][i].st # "SUCCEEDED"

(* An order is REFUNDED exactly when its REFUNDED rows add up to the price.*)
FullRefundIsRefunded ==
    \A o \in Orders : order[o].st = "REFUNDED" <=> RefundedIn(rows[o]) = Price

Ledger == INSTANCE PaymentLedger WITH paid <- [o \in Orders |-> chan[o].paid]

(* Requests that do not overlap behave as if each took effect at one       *)
(* instant: every commit is a step of PaymentLedger on the orders, refunds *)
(* and plans of that moment, and everything else a request does is none.   *)
ImplementsLedger == Ledger!Spec

-----------------------------------------------------------------------------
(* The channel repeats the callback of a paid trade until one is handled,  *)
(* and a request does not fail every time.  Users and clocks owe nothing.  *)
FairSpec ==
    /\ Spec
    /\ \A w \in Workers : WF_vars(Step(w)) /\ SF_vars(CallbackOrder(w))
                           /\ SF_vars(CallbackPayment(w)) /\ SF_vars(Settle(w))
    /\ \A t \in Orders : SF_vars(\E w \in Workers : CallbackStart(w, t, TRUE))

(* A paid trade is settled in the end and stays so.                        *)
PaidIsSettled == \A o \in Orders : chan[o].paid ~> [](HasSettled(o))

OwnTrades ==
    \A o \in Orders : \A i \in DOMAIN rows[o] : rows[o][i].st = "SUCCEEDED" => rows[o][i].trade = o

(* The same for callbacks that may lack out_trade_no: every paid order is  *)
(* settled in the end unless some order was settled, by its amount, with   *)
(* the trade of another one.                                               *)
OwnPaidIsSettled == []OwnTrades => PaidIsSettled
=============================================================================
