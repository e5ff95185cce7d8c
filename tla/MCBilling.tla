----------------------------- MODULE MCBilling ------------------------------
(* Instances of module Billing for TLC. *)
EXTENDS Billing, TLC

\* Every payment buys the minimum runway of the small instances.
MCWorth == [r \in Receipts |-> 3]

SessionSymmetry == Permutations(Sessions)
=============================================================================
