----------------------------- MODULE MCDelivery -----------------------------
(* Two nodes of a cluster and one client, for model checking.              *)
EXTENDS Delivery

NodeSymmetry == Permutations(Nodes)
=============================================================================
