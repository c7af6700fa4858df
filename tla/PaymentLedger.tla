--------------------------- MODULE PaymentLedger ---------------------------
(***************************************************************************)
(* What the payment service promises, with no sessions, rows or channel    *)
(* calls: every request takes effect at one instant, on the orders and     *)
(* plans as they are at that instant.  An order is opened, possibly        *)
(* closed for being late, settled once if its trade was paid (a late       *)
(* payment settles a closed order too), and refunded up to its price.      *)
(***************************************************************************)
EXTENDS Integers

CONSTANTS Orders, Users, Offer, Price, Period, PendingTimeout, MaxClock

VARIABLES order, paid, refunded, plan, now

vars == <<order, paid, refunded, plan, now>>

Init ==
    /\ order = [o \in Orders |-> [st |-> "none", created |-> 0]]
    /\ paid = [o \in Orders |-> FALSE]
    /\ refunded = [o \in Orders |-> 0]
    /\ plan \in [Users -> [tier : {"none", "free"}, expires : {0}]]
    /\ now = 0

Pending(o) == order[o].st = "PENDING"
Late(o) == Pending(o) /\ now - order[o].created > PendingTimeout

Closing(S) == [o \in Orders |-> IF o \in S THEN [order[o] EXCEPT !.st = "CLOSED"] ELSE order[o]]

(* A new order replaces the late ones for the same offer; there must be    *)
(* none still in time.                                                     *)
Open(o) ==
    LET S == {p \in Orders : Offer[p] = Offer[o] /\ Pending(p)} IN
    /\ order[o].st = "none"
    /\ \A p \in S : Late(p)
    /\ order' = [Closing(S) EXCEPT ![o] = [st |-> "PENDING", created |-> now]]
    /\ UNCHANGED <<paid, refunded, plan, now>>

Close(S) ==
    /\ \A o \in S : Late(o)
    /\ order' = Closing(S)
    /\ UNCHANGED <<paid, refunded, plan, now>>

Extended(p) == [tier |-> "pro", expires |-> Period + IF p.expires > now THEN p.expires ELSE now]

Settle(o, S) ==
    /\ paid[o]
    /\ order[o].st \in {"PENDING", "CLOSED"}
    /\ \A p \in S : Late(p)
    /\ order' = [Closing(S) EXCEPT ![o].st = "SUCCEEDED"]
    /\ plan' = [plan EXCEPT ![Offer[o].user] = Extended(@)]
    /\ UNCHANGED <<paid, refunded, now>>

Refund(o, amt) ==
    /\ order[o].st = "SUCCEEDED"
    /\ refunded[o] + amt <= Price
    /\ refunded' = [refunded EXCEPT ![o] = @ + amt]
    /\ IF refunded'[o] = Price
       THEN /\ order' = [order EXCEPT ![o].st = "REFUNDED"]
            /\ plan' = [plan EXCEPT ![Offer[o].user].tier = "free"]
       ELSE UNCHANGED <<order, plan>>
    /\ UNCHANGED <<paid, now>>

Pay(o) ==
    /\ order[o].st # "none" /\ ~paid[o]
    /\ paid' = [paid EXCEPT ![o] = TRUE]
    /\ UNCHANGED <<order, refunded, plan, now>>

Tick ==
    /\ now < MaxClock
    /\ now' = now + 1
    /\ UNCHANGED <<order, paid, refunded, plan>>

Next ==
    \/ \E o \in Orders : Open(o) \/ Pay(o)
    \/ \E S \in SUBSET Orders : Close(S) \/ \E o \in Orders : Settle(o, S)
    \/ \E o \in Orders, amt \in 1..Price : Refund(o, amt)
    \/ Tick

Spec == Init /\ [][Next]_vars
=============================================================================
