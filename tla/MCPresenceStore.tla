-------------------------- MODULE MCPresenceStore --------------------------
(* One user and two nodes of a cluster, for model checking.                *)
EXTENDS PresenceStore, TLC

NodeSymmetry == Permutations(Nodes)
============================================================================
