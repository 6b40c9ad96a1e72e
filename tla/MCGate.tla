------------------------------ MODULE MCGate ------------------------------
(* Two requests at a time from the tabs of one browser, for model checking. *)
EXTENDS Gate, TLC

MCAddress == [b \in Browsers |-> CHOOSE a \in Addresses : TRUE]

Symmetry == Permutations(Requests)
=============================================================================
