----------------------------- MODULE MCAccounts -----------------------------
(* Instances of Accounts for TLC. *)
EXTENDS Accounts, TLC

CONSTANTS w1, w2, u1, u2, core, em, ph, pw1, pw2

Symmetric == Permutations(Workers)
CoreHas == core :> em
=============================================================================
