----------------------------- MODULE MCPayment -----------------------------
(* Instances of Payment for TLC. *)
EXTENDS Payment, TLC

CONSTANTS w1, w2, o1, o2, u1, u2, p1, p2

Offering(u, p) == [user |-> u, product |-> p]

(* one user, one product: reuse, timeout and re-order *)
OfferSame == (o1 :> Offering(u1, p1)) @@ (o2 :> Offering(u1, p1))
(* one user, two products: two orders extend one plan *)
OfferTwoProducts == (o1 :> Offering(u1, p1)) @@ (o2 :> Offering(u1, p2))
(* two users: match by amount across users *)
OfferTwoUsers == (o1 :> Offering(u1, p1)) @@ (o2 :> Offering(u2, p1))
OfferOne == o1 :> Offering(u1, p1)

Symmetric == Permutations(Workers)
=============================================================================
