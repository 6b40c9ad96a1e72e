------------------------------- MODULE MCOutbox -------------------------------
(* Instances of Outbox for model checking.                                 *)
EXTENDS OutboxInvariant, TLC

NodeSymmetry == Permutations(Nodes) \cup Permutations(Handlers)
==============================================================================
