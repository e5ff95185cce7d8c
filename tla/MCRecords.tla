------------------------------ MODULE MCRecords ------------------------------
(* Instances of module Records for TLC. *)
EXTENDS Records

Interchangeable ==
    Permutations(Requests) \union Permutations(Deliveries) \union Permutations(Events)
=============================================================================
