------------------------------ MODULE MCEgress ------------------------------
(* Instances of module Egress for TLC. *)
EXTENDS Egress, TLC

InterchangeableSymmetry == Permutations(Requests) \union Permutations(Broadcasters)

=============================================================================
